---- MODULE Spec2Model ----
(***************************************************************************)
(* Model of the U1c 8x8 switch-matrix module (src/spirack/U1c_module.py):  *)
(* the grid state, the transition planner, the hardware mapping, and the   *)
(* handlers update_state, connect_all and disconnect_all that drive the    *)
(* shift register through the SPI rack.                                    *)
(*                                                                         *)
(* Python lists are modelled as TLA+ sequences: the element at Python      *)
(* index i is the element at index i+1 here.                               *)
(***************************************************************************)
EXTENDS Integers, Sequences, FiniteSets, TLC

\* Number of samples (rows) and of instruments (columns) of the matrix.
N == 8

\* Number of characters deleted in front of the cells of a data line.
LabelLen == 7

\* SPI addresses of the shift register and of the output-enable pin.
SR_ADDR == 3
OE_ADDR == 5

---------------------------------------------------------------------------
\* Bounds of the model.

\* Configuration files the user may provide: CfgGrid(1) .. CfgGrid(MaxCfg).
MaxCfg == 3

\* A bus write may raise; the failing write is one of the first MaxFailAt
\* bus writes of a call.
MaxFailAt == 2

\* Number of calls in one run that end with a failed bus write.
MaxFailures == 1

---------------------------------------------------------------------------
\* Generic helpers.

Last(s) == s[Len(s)]

Reverse(s) == [i \in 1..Len(s) |-> s[Len(s) + 1 - i]]

RECURSIVE Concat(_)
Concat(ss) == IF ss = <<>> THEN <<>> ELSE ss[1] \o Concat(Tail(ss))

\* Python's None, returned by a function that falls off its end: modelled as
\* the empty list, which no function of the module returns.
None == <<>>

\* The value of a call that raised instead of returning a list or a
\* bytearray: the empty list as well.
Exception == <<>>

---------------------------------------------------------------------------
\* The grids of __init__.

settings_default == [i \in 1..N |-> [j \in 1..N |-> "0"]]

settings_all_on == [i \in 1..N |-> [j \in 1..N |-> "1"]]

---------------------------------------------------------------------------
\* The transition planner.

\* Mutant: the row is scanned from its last literal to its first one.
FirstDiff_Descending(row_desired, row_current) ==
    LET D == {i \in 1..Len(row_desired) :
                 i > Len(row_current) \/ row_desired[i] # row_current[i]}
    IN  IF D = {} THEN 0 ELSE CHOOSE i \in D : \A j \in D : i >= j

\* Index of the first literal of row_desired that differs from row_current
\* (the for loop of get_transitional_rows), 0 if the loop ends without one.
\* An index beyond the end of row_current stops the loop as well: there
\* row_current[lit_index] raises IndexError.
FirstDiff(row_desired, row_current) ==
    LET D == {i \in 1..Len(row_desired) :
                 i > Len(row_current) \/ row_desired[i] # row_current[i]}
    IN  IF D = {} THEN 0 ELSE CHOOSE i \in D : \A j \in D : i <= j

\* Mutant: every differing literal of the row is corrected in one step.
get_transitional_rows_AllAtOnce(row_desired, row_current, transitional_rows) ==
    IF row_desired = row_current
    THEN transitional_rows
    ELSE Append(transitional_rows, row_desired)

RECURSIVE get_transitional_rows(_, _, _)
get_transitional_rows(row_desired, row_current, transitional_rows) ==
    IF row_desired = row_current
    THEN transitional_rows
    ELSE LET lit_index == FirstDiff(row_desired, row_current)
         IN  IF lit_index = 0
             THEN None
             ELSE IF lit_index > Len(row_current)
             THEN Exception
             ELSE LET new_row == [Last(transitional_rows) EXCEPT
                                     ![lit_index] = row_desired[lit_index]]
                  IN  get_transitional_rows(row_desired, new_row,
                                            Append(transitional_rows, new_row))

\* Mutant: each new state is copied from the first state of the list instead
\* of the last one.
get_interim_states_from_interim_rows_FromFirst(row_num, interim_rows, interim_states) ==
    IF Len(interim_rows) = 0
    THEN interim_states
    ELSE interim_states \o
             [k \in 1..Len(interim_rows) |->
                 [interim_states[1] EXCEPT ![row_num] = interim_rows[k]]]

\* The loop appends, for every interim row, a copy of the last state with
\* row row_num replaced by it; every pass replaces the same row, so the k-th
\* appended state is the last state on entry with row row_num replaced by
\* the k-th interim row.
get_interim_states_from_interim_rows(row_num, interim_rows, interim_states) ==
    IF Len(interim_rows) = 0
    THEN interim_states
    ELSE interim_states \o
             [k \in 1..Len(interim_rows) |->
                 [Last(interim_states) EXCEPT ![row_num] = interim_rows[k]]]

\* The loop body of calc_transition_states for rows row_index..Len(desired);
\* current is self.settings_current.  IndexError of get_transitional_rows
\* and the TypeError of del transitional_rows[0] on None end the call.
RECURSIVE calc_rows_from(_, _, _, _)
calc_rows_from(row_index, settings_desired, current, transitional_states) ==
    IF row_index > Len(settings_desired)
    THEN transitional_states
    ELSE LET returned ==
                 get_transitional_rows(settings_desired[row_index],
                                       current[row_index],
                                       <<current[row_index]>>)
             transitional_rows == Tail(returned)
         IN  IF returned = None \/ returned = Exception
             THEN Exception
             ELSE calc_rows_from(row_index + 1, settings_desired, current,
                      get_interim_states_from_interim_rows(row_index,
                          transitional_rows, transitional_states))

\* calc_transition_states: the list transitional_states after the call
\* (the call appends to the caller's list in place).
calc_transition_states(settings_desired, current, transitional_states) ==
    calc_rows_from(1, settings_desired, current, transitional_states)

---------------------------------------------------------------------------
\* Hardware mapping and serialization.

\* Mutant: the first row of a pair moves unchanged and the second one is
\* reversed.
adapt_settings_to_hardware_mapping_SecondReversed(settings_initial) ==
    [r \in 1..N |->
        IF r % 2 = 1 THEN Reverse(settings_initial[r + 1])
                     ELSE settings_initial[r - 1]]

\* Mutant: both rows of a pair are taken from its second row.
adapt_settings_to_hardware_mapping_SameRow(settings_initial) ==
    [r \in 1..N |->
        IF r % 2 = 1 THEN settings_initial[r + 1]
                     ELSE Reverse(settings_initial[r])]

\* Mutant: the rows of a pair are swapped and none is reversed.
adapt_settings_to_hardware_mapping_SwapOnly(settings_initial) ==
    [r \in 1..N |->
        IF r % 2 = 1 THEN settings_initial[r + 1]
                     ELSE settings_initial[r - 1]]

adapt_settings_to_hardware_mapping(settings_initial) ==
    [r \in 1..N |->
        IF r % 2 = 1 THEN settings_initial[r + 1]
                     ELSE Reverse(settings_initial[r - 1])]

\* int(bit) for a character of a configuration file; -1 stands for the
\* ValueError of a character that is no digit.
IntOfBit(bit) ==
    CASE bit = "0" -> 0
      [] bit = "1" -> 1
      [] bit = "2" -> 2
      [] OTHER -> -1

\* sum(int(bit)<<bit_index for bit_index,bit in enumerate(reversed(row))),
\* summed from bit_index on.
RECURSIVE sum_bits_from(_, _)
sum_bits_from(row, bit_index) ==
    IF bit_index >= Len(row)
    THEN 0
    ELSE IntOfBit(row[Len(row) - bit_index]) * 2^bit_index
           + sum_bits_from(row, bit_index + 1)

\* Mutant: the row is not reversed, bit 0 is its first column.
row_to_byte_NotReversed(row) ==
    IF \E j \in 1..Len(row) : IntOfBit(row[j]) = -1
    THEN -1
    ELSE LET current_byte == sum_bits_from(Reverse(row), 0)
         IN  IF current_byte > 255 THEN -1 ELSE current_byte

\* current_byte of one row; -1 stands for the ValueError of int(bit) or of
\* bytearray.append for a value outside 0..255.
row_to_byte(row) ==
    IF \E j \in 1..Len(row) : IntOfBit(row[j]) = -1
    THEN -1
    ELSE LET current_byte == sum_bits_from(row, 0)
         IN  IF current_byte > 255 THEN -1 ELSE current_byte

\* The bytearray of the rows' bytes; a ValueError in one of them ends the
\* call.
convert_settings_to_bytearray(next_settings) ==
    LET bytes == [r \in 1..Len(next_settings) |->
                     row_to_byte(next_settings[r])]
    IN  IF \E r \in 1..Len(bytes) : bytes[r] = -1
        THEN Exception
        ELSE bytes

---------------------------------------------------------------------------
\* Integers as Python's bitwise operators see them (non-negative, below
\* 2^31).

Bit(x, k) == (x \div 2^k) % 2

RECURSIVE BitAnd(_, _)
\* a & b
BitAnd(a, b) ==
    IF a = 0 \/ b = 0 THEN 0
    ELSE (a % 2) * (b % 2) + 2 * BitAnd(a \div 2, b \div 2)

\* a | b
BitOr(a, b) == a + b - BitAnd(a, b)

\* A Python ValueError (or KeyError) where an integer was expected.
ValueError == -1

---------------------------------------------------------------------------
\* P2d_module: the byte of enable and limit bits.

possible_channels == {1, 2, 3, 4}
possible_states == {"ON", "OFF"}
possible_limits == {"LOW", "HIGH"}

\* str.upper() on the strings the calls are given.
upper(s) ==
    CASE s = "on" -> "ON"
      [] s = "off" -> "OFF"
      [] s = "low" -> "LOW"
      [] s = "high" -> "HIGH"
      [] OTHER -> s

\* Mutant: the mask that clears the bit is 255 - bit_pos.
configure_bit_in_byte_WrongMask(bit_pos, bit_value, orig_byte) ==
    IF bit_pos \notin 0..7 THEN ValueError
    ELSE IF bit_value \notin {0, 1} THEN ValueError
    ELSE IF bit_value = 0
         THEN LET update_vector == 255 - bit_pos
              IN  BitAnd(orig_byte, update_vector)
         ELSE LET update_vector == bit_value * 2^bit_pos
              IN  BitOr(orig_byte, update_vector)

\* _configure_bit_in_byte(bit_pos, bit_value, orig_byte)
configure_bit_in_byte(bit_pos, bit_value, orig_byte) ==
    IF bit_pos \notin 0..7 THEN ValueError
    ELSE IF bit_value \notin {0, 1} THEN ValueError
    ELSE IF bit_value = 0
         THEN LET update_vector == 255 - 2^bit_pos
              IN  BitAnd(orig_byte, update_vector)
         ELSE LET update_vector == bit_value * 2^bit_pos
              IN  BitOr(orig_byte, update_vector)

chn_num_to_bit_posn == [c \in possible_channels |-> 2 * (c - 1)]

chn_to_lim_posn == [c \in possible_channels |-> 2 * (c - 1) + 1]

\* The new remote_settings, or ValueError.
calc_settings_for_enabling_outputs(self_remote_settings, channel_num, state) ==
    IF channel_num \notin possible_channels THEN ValueError
    ELSE IF upper(state) \notin possible_states THEN ValueError
    ELSE LET state_Bool == IF upper(state) = "ON" THEN 1 ELSE 0
             bit_pos == chn_num_to_bit_posn[channel_num]
         IN  configure_bit_in_byte(bit_pos, state_Bool, self_remote_settings)

\* What a call of a module leaves: the attribute, the bytes it wrote to
\* address 2, whether it raised.  fail: the write to the bus raises.
ByteCall(self_remote_settings, new_byte, fail) ==
    IF new_byte = ValueError
    THEN [remote_settings |-> self_remote_settings, written |-> <<>>,
          raised |-> TRUE]
    ELSE [remote_settings |-> new_byte,
          written |-> IF fail THEN <<>> ELSE <<new_byte>>,
          raised |-> fail]

enable_outputs_run(self_remote_settings, channel_num, state, fail) ==
    ByteCall(self_remote_settings,
             calc_settings_for_enabling_outputs(self_remote_settings,
                                                channel_num, state),
             fail)

set_I_limit_run(self_remote_settings, channel, limit, fail) ==
    ByteCall(self_remote_settings,
             IF channel \notin possible_channels THEN ValueError
             ELSE IF upper(limit) \notin possible_limits THEN ValueError
             ELSE LET lim_to_bit ==
                          IF channel \in {1, 2}
                          THEN (IF upper(limit) = "LOW" THEN 1 ELSE 0)
                          ELSE (IF upper(limit) = "LOW" THEN 0 ELSE 1)
                  IN  configure_bit_in_byte(chn_to_lim_posn[channel],
                                            lim_to_bit, self_remote_settings),
             fail)

RECURSIVE P2d_initial_settings(_, _)
\* remote_settings after the first i rounds of the loop of __init__ over the
\* channels; it starts from 0x0A.
P2d_initial_settings(initial_states, i) ==
    IF i = 0 THEN \H0A
    ELSE LET before == P2d_initial_settings(initial_states, i - 1)
         IN  IF before = ValueError THEN ValueError
             ELSE calc_settings_for_enabling_outputs(before, i,
                                                     initial_states[i])

---------------------------------------------------------------------------
\* D4a_module: the byte of mux-select and overload-LED bits.

measurement_types ==
    <<"single-ended calibration", "differential calibration",
      "single-ended measurement", "grounding",
      "back-panel single-ended measurement",
      "back-panel complementary single-ended measurement",
      "back-panel differential measurement",
      "test_msb_is_1", "test_lsb_is_1">>

IsMeasurementType(measurement_type) ==
    \E i \in 1..Len(measurement_types) : measurement_types[i] = measurement_type

\* The statements of the branch of select_measurement_type for an ADC and a
\* measurement type, in the order of the code: "=" assigns the operand to
\* remote_settings, "&" and "|" are the augmented assignments &= and |=.
mux_statements(adc, measurement_type) ==
    IF adc = 0
    THEN CASE measurement_type = "test_lsb_is_1" -> << <<"=", \H01>> >>
           [] measurement_type = "test_msb_is_1" -> << <<"=", \H08>> >>
           [] measurement_type = "single-ended calibration" ->
                  << <<"&", \Hfb>>, <<"&", \Hfd>>, <<"&", \Hf7>> >>
           [] measurement_type = "differential calibration" ->
                  << <<"&", \Hfb>>, <<"&", \Hfd>>, <<"|", \H08>> >>
           [] measurement_type = "single-ended measurement" ->
                  << <<"&", \Hfb>>, <<"|", \H02>>, <<"&", \Hf7>> >>
           [] measurement_type = "grounding" ->
                  << <<"|", \H04>>, <<"&", \Hfd>>, <<"&", \Hf7>> >>
           [] measurement_type = "back-panel single-ended measurement" ->
                  << <<"|", \H04>>, <<"|", \H02>>, <<"&", \Hf7>> >>
           [] measurement_type
                  = "back-panel complementary single-ended measurement" ->
                  << <<"|", \H04>>, <<"&", \Hfd>>, <<"|", \H08>> >>
           [] measurement_type = "back-panel differential measurement" ->
                  << <<"|", \H04>>, <<"|", \H02>>, <<"|", \H08>> >>
           [] OTHER -> << >>
    ELSE CASE measurement_type = "test_lsb_is_1" -> << <<"=", \H10>> >>
           [] measurement_type = "test_msb_is_1" -> << <<"=", \H80>> >>
           [] measurement_type = "single-ended calibration" ->
                  << <<"&", \H7f>>, <<"&", \Hbf>>, <<"&", \Hef>> >>
           [] measurement_type = "differential calibration" ->
                  << <<"&", \H7f>>, <<"&", \Hbf>>, <<"|", \H10>> >>
           [] measurement_type = "single-ended measurement" ->
                  << <<"&", \H7f>>, <<"|", \H40>>, <<"&", \Hef>> >>
           [] measurement_type = "grounding" ->
                  << <<"|", \H80>>, <<"&", \Hbf>>, <<"&", \Hef>> >>
           [] measurement_type = "back-panel single-ended measurement" ->
                  << <<"|", \H80>>, <<"|", \H40>>, <<"&", \Hef>> >>
           [] measurement_type
                  = "back-panel complementary single-ended measurement" ->
                  << <<"|", \H80>>, <<"&", \Hbf>>, <<"|", \H10>> >>
           [] measurement_type = "back-panel differential measurement" ->
                  << <<"|", \H8f>>, <<"|", \H4f>>, <<"|", \H1f>> >>
           [] OTHER -> << >>

RECURSIVE execute(_, _)
\* remote_settings after the statements, executed from the first on.
execute(statements, self_remote_settings) ==
    IF statements = << >> THEN self_remote_settings
    ELSE LET st == Head(statements)
             after == CASE st[1] = "=" -> st[2]
                        [] st[1] = "&" -> BitAnd(self_remote_settings, st[2])
                        [] st[1] = "|" -> BitOr(self_remote_settings, st[2])
         IN  execute(Tail(statements), after)

select_measurement_type_run(self_remote_settings, adc, measurement_type, fail) ==
    ByteCall(self_remote_settings,
             IF adc \notin {0, 1} THEN ValueError
             ELSE IF ~IsMeasurementType(measurement_type) THEN ValueError
             ELSE execute(mux_statements(adc, measurement_type),
                          self_remote_settings),
             fail)

config_led_run(self_remote_settings, led, on_off, fail) ==
    ByteCall(self_remote_settings,
             IF led \notin {0, 1} THEN ValueError
             ELSE IF on_off \notin {0, 1} THEN ValueError
             ELSE IF led = 0
                  THEN BitOr(BitAnd(self_remote_settings, \Hfe), on_off * 2^0)
                  ELSE BitOr(BitAnd(self_remote_settings, \HDf), on_off * 2^5),
             fail)

---------------------------------------------------------------------------
\* S5k_module: the clock dividers.

\* DAC: <<DAC_IC, DAC_internal>>
DAC_mapping ==
    [DAC \in 1..16 |->
        <<CASE DAC \in 1..4 -> 3 [] DAC \in 5..8 -> 1
            [] DAC \in 9..12 -> 4 [] DAC \in 13..16 -> 0,
          CASE DAC % 4 = 1 -> 4 [] DAC % 4 = 2 -> 3
            [] DAC % 4 = 3 -> 1 [] DAC % 4 = 0 -> 2>>]

LMK_reg == (0 :> 6) @@ (1 :> 7) @@ (3 :> 0) @@ (4 :> 1)

\* allowed_values = [1] + list(range(2, 512, 2))
allowed_values == {1} \cup {d \in 2..511 : d % 2 = 0}

\* The four bytes write_LMK_data(register, data) sends.
write_LMK_data(register, data) ==
    LET b1 == BitAnd(data \div 2^24, \HFF)
        b2 == BitAnd(data \div 2^16, \HFF)
        b3 == BitAnd(data \div 2^8, \HFF)
        b4 == BitOr(BitAnd(data, \HFF), BitAnd(register, \HF))
    IN  <<b1, b2, b3, b4>>

\* The register of the clock divider that a word of four bytes is for.
LMK_address(s_data) == s_data[4] % 16

\* data for a divisor: 1<<16 | 0<<17 | 0<<8, or
\* 1<<16 | 1<<17 | int(divisor/2)<<8
divider_data(divisor) ==
    IF divisor = 1
    THEN BitOr(BitOr(2^16, 0 * 2^17), 0 * 2^8)
    ELSE BitOr(BitOr(2^16, 1 * 2^17), (divisor \div 2) * 2^8)

Max(S) == CHOOSE m \in S : \A x \in S : x <= m

\* The registers after the words are sent, the first first.
RECURSIVE LMK_after(_, _)
LMK_after(self_LMK, words) ==
    IF words = << >> THEN self_LMK
    ELSE LMK_after([self_LMK EXCEPT ![LMK_address(Head(words))] = Head(words)],
                   Tail(words))

\* Mutant: the divider written for the BIC clock is the divisor of the call.
set_clock_division_run_OwnDivisor(self_DAC_clock_div, self_LMK, DAC, divisor, fail) ==
    IF divisor \notin allowed_values \/ DAC \notin DOMAIN DAC_mapping
    THEN [DAC_clock_div |-> self_DAC_clock_div, LMK |-> self_LMK,
          written |-> << >>, raised |-> TRUE]
    ELSE LET data == divider_data(divisor)
             DAC_IC == DAC_mapping[DAC][1]
             first == write_LMK_data(LMK_reg[DAC_IC], data)
             updated == [d \in 1..16 |->
                            IF (d - 1) \div 4 = (DAC - 1) \div 4
                            THEN divisor ELSE self_DAC_clock_div[d]]
             second == write_LMK_data(3, divider_data(divisor))
             written == IF fail = 1 THEN << >>
                        ELSE IF fail = 2 THEN <<first>>
                        ELSE <<first, second>>
         IN  [DAC_clock_div |-> IF fail = 1 THEN self_DAC_clock_div
                                ELSE updated,
              LMK |-> LMK_after(self_LMK, written),
              written |-> written,
              raised |-> fail # 0]

\* set_clock_division(DAC, divisor); fail: the write to the bus that raises
\* (1: the register of the DAC IC, 2: register 3, 0: none).
set_clock_division_run(self_DAC_clock_div, self_LMK, DAC, divisor, fail) ==
    IF divisor \notin allowed_values \/ DAC \notin DOMAIN DAC_mapping
    THEN [DAC_clock_div |-> self_DAC_clock_div, LMK |-> self_LMK,
          written |-> << >>, raised |-> TRUE]
    ELSE LET data == divider_data(divisor)
             DAC_IC == DAC_mapping[DAC][1]
             first == write_LMK_data(LMK_reg[DAC_IC], data)
             updated == [d \in 1..16 |->
                            IF (d - 1) \div 4 = (DAC - 1) \div 4
                            THEN divisor ELSE self_DAC_clock_div[d]]
             max_divisor == Max({updated[d] : d \in 1..16})
             second == write_LMK_data(3, divider_data(max_divisor))
             written == IF fail = 1 THEN << >>
                        ELSE IF fail = 2 THEN <<first>>
                        ELSE <<first, second>>
         IN  [DAC_clock_div |-> IF fail = 1 THEN self_DAC_clock_div
                                ELSE updated,
              LMK |-> LMK_after(self_LMK, written),
              written |-> written,
              raised |-> fail # 0]

---------------------------------------------------------------------------
\* The state.

VARIABLES
    initialized,        \* self.initialized
    settings_current,   \* self.settings_current
    switch_cfg_file,    \* self.switch_cfg_file
    files,              \* the files of the run directory, by file id
    sr_data,            \* the payload the shift register (address 3) holds,
                        \* <<>> while the instance has written none
    oe_data,            \* the byte the output-enable address (5) holds
    call,               \* the last call: its name, the attributes and the
                        \* payloads of the two addresses on entry, the file it
                        \* read (the selected file as it was on entry), what
                        \* it planned, the events it produced
    failures,           \* number of calls that ended with a raise
    lists,              \* the contents of the list objects that
                        \* self.settings_default and self.settings_all_on name
    settings_current_is,    \* the list object self.settings_current names
    D4a_remote_settings,    \* D4a_module: self.remote_settings
    D4a_sr,                 \* D4a_module: the byte its address 2 holds
    P2d_remote_settings,    \* P2d_module: self.remote_settings
    P2d_sr,                 \* P2d_module: the byte its address 2 holds
    DAC_clock_div,          \* S5k_module: self.DAC_clock_div
    LMK                     \* S5k_module: the four bytes last written to
                            \* each register of the clock divider

vars == <<initialized, settings_current, switch_cfg_file, files, sr_data,
          oe_data, call, failures, lists, settings_current_is,
          D4a_remote_settings, D4a_sr, P2d_remote_settings, P2d_sr,
          DAC_clock_div, LMK>>

\* The U1c instance without its history, its list objects, and the
\* instances of the other modules.
u1c_vars == <<initialized, settings_current, switch_cfg_file, files, sr_data,
              oe_data, failures>>

object_vars == <<lists, settings_current_is>>

d4a_vars == <<D4a_remote_settings, D4a_sr>>

p2d_vars == <<P2d_remote_settings, P2d_sr>>

s5k_vars == <<DAC_clock_div, LMK>>

other_modules == <<d4a_vars, p2d_vars, s5k_vars>>

---------------------------------------------------------------------------
\* The configuration files of the run directory.

\* The character rows of the configuration files: file 1 connects sample 3
\* to instrument 6 only, file 2 connects everything, file k > 2 connects
\* sample i to instrument j when i + j is a multiple of k.
CfgGrid(k) ==
    [i \in 1..N |-> [j \in 1..N |->
        IF \/ k = 1 /\ i = 3 /\ j = 6
           \/ k = 2
           \/ k > 2 /\ (i + j) % k = 0
        THEN "1" ELSE "0"]]

\* One data line of a configuration file: 'SampleX' and the eight cells,
\* comma separated, with the line end.
CsvLine(row) ==
    <<"S", "a", "m", "p", "l", "e", "X">>
        \o Concat([j \in 1..Len(row) |-> <<",", row[j]>>]) \o <<"\n">>

\* The lines of a configuration file: the header line and one data line per
\* sample.
CsvFile(grid) ==
    << <<"U", "1", "c", "\n">> >> \o [i \in 1..Len(grid) |-> CsvLine(grid[i])]

\* File names: a file id and the last three characters of the name; file 1
\* is 'U1c_user_config.csv'.
FileIds == 1..(MaxCfg + 1)

FileNames == [id : FileIds, type : {"csv", "txt"}]

DefaultCfgFile == [id |-> 1, type |-> "csv"]

\* A file of the run directory: whether it exists, and its lines.
NoFile == [exists |-> FALSE, lines |-> <<>>]

TextFile(lines) == [exists |-> TRUE, lines |-> lines]

\* The run directory with well-formed files: the files 1..MaxCfg exist as
\* .csv files.
WellFormedFiles ==
    [id \in FileIds |->
        IF id <= MaxCfg THEN TextFile(CsvFile(CfgGrid(id))) ELSE NoFile]

\* The ways a file of the run directory is malformed.
MalformedKinds == {"short", "row_short", "row_long", "cell_x", "cell_2"}

\* The lines of malformed file k, made from CfgGrid(k): the file lacks its
\* last k - 1 lines, or row k + 3 lacks its last cell or has one cell more,
\* or the cell of row k + 3 and column k is 'x', or the last cell of row 2k
\* is '2'.
MalformedFile(kind, k) ==
    LET grid == CfgGrid(k)
        file == CsvFile(grid)
        row == grid[k + 3]
    IN  CASE kind = "short" -> SubSeq(file, 1, Len(file) - (k - 1))
          [] kind = "row_short" ->
                 [file EXCEPT ![k + 4] = CsvLine(SubSeq(row, 1, Len(row) - 1))]
          [] kind = "row_long" ->
                 [file EXCEPT ![k + 4] = CsvLine(Append(row, "1"))]
          [] kind = "cell_x" ->
                 [file EXCEPT ![k + 4] = CsvLine([row EXCEPT ![k] = "x"])]
          [] kind = "cell_2" ->
                 [file EXCEPT ![2 * k + 1] =
                     CsvLine([grid[2 * k] EXCEPT ![N] = "2"])]

\* A run directory in which file 1 is well-formed and the files 2..MaxCfg
\* are malformed.
MalformedFiles(kind) ==
    [id \in FileIds |->
        IF id = 1 THEN TextFile(CsvFile(CfgGrid(id)))
        ELSE IF id <= MaxCfg THEN TextFile(MalformedFile(kind, id))
        ELSE NoFile]

isfile(fname) == fname.type = "csv" /\ files[fname.id].exists

\* open(fname,'r') raised: modelled as a list holding one empty line, which
\* no file yields.
FileNotFound == << <<>> >>

\* read_new_config_from_csv: the lines of the selected file.
read_new_config_from_csv(fname) ==
    IF files[fname.id].exists THEN files[fname.id].lines ELSE FileNotFound

\* line.rstrip('\n')
RECURSIVE rstrip(_)
rstrip(line) ==
    IF line # <<>> /\ Last(line) = "\n"
    THEN rstrip(SubSeq(line, 1, Len(line) - 1))
    ELSE line

IsNoDelimiter(symb) == symb # "," /\ symb # ";"

\* input_lines[i] raises IndexError when the file has fewer than N + 1
\* lines.
extract_settings_from_csv_input(input_lines) ==
    IF Len(input_lines) < N + 1
    THEN Exception
    ELSE [i \in 1..N |->
             LET line == rstrip(input_lines[i + 1])
                 line_without_commas == SelectSeq(line, IsNoDelimiter)
             IN  SubSeq(line_without_commas, LabelLen + 1,
                        Len(line_without_commas))]

---------------------------------------------------------------------------
\* Rewriting a configuration file with the csv module.

\* The file edit_connection_in_file opens: 'U1c_user_config.csv', whatever
\* file is selected.
EditedFile == 1

\* The delimiter csv.Sniffer finds in a file of comma separated cells.
delimiter == ","

\* A line as csv.reader yields it: the fields between the delimiters,
\* without the line end.
split_fields(chars) ==
    LET IsDelimiterAt(i) == chars[i] = delimiter
        at == SelectSeq([i \in 1..Len(chars) |-> i], IsDelimiterAt)
    IN  [k \in 1..(Len(at) + 1) |->
            SubSeq(chars, IF k = 1 THEN 1 ELSE at[k - 1] + 1,
                          IF k > Len(at) THEN Len(chars) ELSE at[k] - 1)]

csv_reader(line) == split_fields(rstrip(line))

\* A row as csv.writer writes it and a later read in text mode sees it: the
\* fields joined by the delimiter, and the line end.
csv_writerow(row) ==
    row[1] \o Concat([k \in 1..(Len(row) - 1) |-> <<delimiter>> \o row[k + 1]])
           \o <<"\n">>

\* str(new_val) as csv.writer writes the number new_val.
str(new_val) == IF new_val = 0 THEN <<"0">> ELSE <<"1">>

\* The lines of the file after edit_connection_in_file read its rows, set
\* rows[sample_num][instrument_num] and wrote the rows back.
rewrite(lines, sample_num, instrument_num, new_val) ==
    LET rows == [k \in 1..Len(lines) |-> csv_reader(lines[k])]
        edited == [rows EXCEPT ![sample_num + 1][instrument_num + 1] =
                                   str(new_val)]
    IN  [k \in 1..Len(edited) |-> csv_writerow(edited[k])]

---------------------------------------------------------------------------
\* The bus: what a handler does is a sequence of events (bus writes and
\* beeps); a bus write may raise, which ends the handler.  settle tells
\* whether time.sleep(self.switch_delay) follows the write.

WriteEv(addr, data, settle) ==
    [op |-> "write", addr |-> addr, data |-> data, settle |-> settle]

BeepEv == [op |-> "beep", addr |-> 0, data |-> <<>>, settle |-> FALSE]

\* A raise statement, or a Python exception, outside the bus.
RaiseEv == [op |-> "raise", addr |-> 0, data |-> <<>>, settle |-> FALSE]

\* The events of a handler whose fail-th bus write raises (fail = 0: none
\* raises): the events up to the first exception, which is that write or an
\* exception of the code before it.
Deliver(events, fail) ==
    LET IsWriteAt(i) == events[i].op = "write"
        write_at == SelectSeq([i \in 1..Len(events) |-> i], IsWriteAt)
        failed == IF fail \in 1..Len(write_at)
                  THEN [events EXCEPT ![write_at[fail]] =
                           [@ EXCEPT !.op = "raise", !.settle = FALSE]]
                  ELSE events
        IsRaiseAt(i) == failed[i].op = "raise"
        raise_at == SelectSeq([i \in 1..Len(failed) |-> i], IsRaiseAt)
    IN  IF raise_at = <<>> THEN failed ELSE SubSeq(failed, 1, raise_at[1])

Raised(tr) == tr # <<>> /\ Last(tr).op = "raise"

\* The statements after the beeps were reached.
Beeped(tr) == \E i \in 1..Len(tr) : tr[i].op = "beep"

\* The payloads written to an address, in order.
WritesTo(tr, addr) ==
    LET IsW(e) == e.op = "write" /\ e.addr = addr
        w == SelectSeq(tr, IsW)
    IN  [i \in 1..Len(w) |-> w[i].data]

\* The payload an address holds after the events of tr.
LastWrite(tr, addr, before) ==
    LET w == WritesTo(tr, addr)
    IN  IF w = <<>> THEN before ELSE Last(w)

\* Mutant: the logic of the output-enable pin is taken as not inverted.
enable_SR_output_NotInverted(value) ==
    IF value = "enable" THEN WriteEv(OE_ADDR, <<1 * 16>>, FALSE)
    ELSE IF value = "disable" THEN WriteEv(OE_ADDR, <<0 * 16>>, FALSE)
    ELSE RaiseEv

\* The event of enable_SR_output: the write of data<<4 to address 5, or the
\* ValueError for an illegal value.
enable_SR_output(value) ==
    IF value = "enable" THEN WriteEv(OE_ADDR, <<0 * 16>>, FALSE)
    ELSE IF value = "disable" THEN WriteEv(OE_ADDR, <<1 * 16>>, FALSE)
    ELSE RaiseEv

mux8by8_write_user_data(address, data) == WriteEv(address, data, FALSE)

\* Mutant: the write is not followed by time.sleep(self.switch_delay).
pass_state_to_HW_module_NoSettle(state) ==
    LET state_adapted == adapt_settings_to_hardware_mapping(state)
        updt_data == convert_settings_to_bytearray(state_adapted)
    IN  IF updt_data = Exception
        THEN RaiseEv
        ELSE mux8by8_write_user_data(SR_ADDR, updt_data)

\* Mutant: the grid is converted without being mapped to the hardware.
pass_state_to_HW_module_Unadapted(state) ==
    LET updt_data == convert_settings_to_bytearray(state)
    IN  IF updt_data = Exception
        THEN RaiseEv
        ELSE [mux8by8_write_user_data(SR_ADDR, updt_data)
                 EXCEPT !.settle = TRUE]

pass_state_to_HW_module(state) ==
    LET state_adapted == adapt_settings_to_hardware_mapping(state)
        updt_data == convert_settings_to_bytearray(state_adapted)
    IN  IF updt_data = Exception
        THEN RaiseEv
        ELSE [mux8by8_write_user_data(SR_ADDR, updt_data)
                 EXCEPT !.settle = TRUE]

\* for state in transitional_states: self.pass_state_to_HW_module(state)
apply_states(transitional_states) ==
    [k \in 1..Len(transitional_states) |->
        pass_state_to_HW_module(transitional_states[k])]

---------------------------------------------------------------------------
\* The handlers, as functions of the attributes on entry, of the handler's
\* input and of the bus write that raises (fail, 0 for none).  The result
\* holds the attributes after the call, the events of the call and what the
\* planner computed: baseline is transitional_states[0], plan the states the
\* planner appended to it.

\* Mutant: the desired grid is written byte for byte in one step.
update_state_run_Naive(self_initialized, self_settings_current, cfg_file, fail) ==
    LET input_lines == read_new_config_from_csv(cfg_file)
        settings_desired == extract_settings_from_csv_input(input_lines)
        to_apply == IF settings_desired = self_settings_current
                    THEN <<>> ELSE <<settings_desired>>
        tr == Deliver(apply_states(to_apply) \o <<BeepEv, BeepEv>>, fail)
    IN  [initialized |-> self_initialized,
         settings_current |-> IF Beeped(tr) THEN settings_desired
                                            ELSE self_settings_current,
         trace |-> tr,
         desired |-> settings_desired,
         baseline |-> self_settings_current,
         plan |-> to_apply]

\* Mutant: transitional_states[0] is not deleted before the hardware loop.
update_state_run_KeepFirst(self_initialized, self_settings_current, cfg_file, fail) ==
    LET transitional_states == <<self_settings_current>>
        input_lines == read_new_config_from_csv(cfg_file)
        settings_desired == extract_settings_from_csv_input(input_lines)
        all_states == calc_transition_states(settings_desired,
                          self_settings_current, transitional_states)
        tr == Deliver(apply_states(all_states) \o <<BeepEv, BeepEv>>, fail)
    IN  [initialized |-> self_initialized,
         settings_current |-> IF Beeped(tr) THEN settings_desired
                                            ELSE self_settings_current,
         trace |-> tr,
         desired |-> settings_desired,
         baseline |-> all_states[1],
         plan |-> all_states]

\* Mutant: settings_current follows every state handed to the hardware.
update_state_run_Advance(self_initialized, self_settings_current, cfg_file, fail) ==
    LET transitional_states == <<self_settings_current>>
        input_lines == read_new_config_from_csv(cfg_file)
        settings_desired == extract_settings_from_csv_input(input_lines)
        all_states == calc_transition_states(settings_desired,
                          self_settings_current, transitional_states)
        to_apply == Tail(all_states)
        tr == Deliver(apply_states(to_apply) \o <<BeepEv, BeepEv>>, fail)
        written == Len(SelectSeq(tr, LAMBDA e : e.op = "write"))
    IN  [initialized |-> self_initialized,
         settings_current |-> IF Beeped(tr) THEN settings_desired
                                            ELSE all_states[written + 1],
         trace |-> tr,
         desired |-> settings_desired,
         baseline |-> all_states[1],
         plan |-> Tail(all_states)]

\* An exception of the reading, of the extraction or of the planner ends
\* the call before the hardware loop.
update_state_run(self_initialized, self_settings_current, cfg_file, fail) ==
    LET transitional_states == <<self_settings_current>>
        input_lines == read_new_config_from_csv(cfg_file)
        settings_desired == IF input_lines = FileNotFound
                            THEN Exception
                            ELSE extract_settings_from_csv_input(input_lines)
        all_states == IF settings_desired = Exception
                      THEN Exception
                      ELSE calc_transition_states(settings_desired,
                               self_settings_current, transitional_states)
        to_apply == IF all_states = Exception THEN <<>> ELSE Tail(all_states)
        tr == IF all_states = Exception
              THEN <<RaiseEv>>
              ELSE Deliver(apply_states(to_apply) \o <<BeepEv, BeepEv>>, fail)
    IN  [initialized |-> self_initialized,
         settings_current |-> IF Beeped(tr) THEN settings_desired
                                            ELSE self_settings_current,
         trace |-> tr,
         desired |-> settings_desired,
         baseline |-> transitional_states[1],
         plan |-> to_apply]

\* Mutant: the validity flag is left as it was, as in update_state.
connect_all_run_NoFlag(self_initialized, self_settings_current, fail) ==
    LET transitional_states == <<self_settings_current>>
        settings_desired == settings_all_on
        all_states == calc_transition_states(settings_desired,
                          self_settings_current, transitional_states)
        to_apply == Tail(all_states)
        tr == Deliver(apply_states(to_apply) \o <<BeepEv, BeepEv>>
                        \o <<enable_SR_output("enable")>>, fail)
    IN  [initialized |-> self_initialized,
         settings_current |-> IF Beeped(tr) THEN settings_all_on
                                            ELSE self_settings_current,
         trace |-> tr,
         desired |-> settings_desired,
         baseline |-> all_states[1],
         plan |-> Tail(all_states)]

\* Mutant: the validity flag is set before the hardware loop.
connect_all_run_FlagFirst(self_initialized, self_settings_current, fail) ==
    LET transitional_states == <<self_settings_current>>
        settings_desired == settings_all_on
        all_states == calc_transition_states(settings_desired,
                          self_settings_current, transitional_states)
        to_apply == Tail(all_states)
        tr == Deliver(apply_states(to_apply) \o <<BeepEv, BeepEv>>
                        \o <<enable_SR_output("enable")>>, fail)
    IN  [initialized |-> 1,
         settings_current |-> IF Beeped(tr) THEN settings_all_on
                                            ELSE self_settings_current,
         trace |-> tr,
         desired |-> settings_desired,
         baseline |-> all_states[1],
         plan |-> Tail(all_states)]

\* Mutant: the validity flag is cleared on entry and set again at the end.
connect_all_run_Invalidate(self_initialized, self_settings_current, fail) ==
    LET transitional_states == <<self_settings_current>>
        settings_desired == settings_all_on
        all_states == calc_transition_states(settings_desired,
                          self_settings_current, transitional_states)
        to_apply == Tail(all_states)
        tr == Deliver(apply_states(to_apply) \o <<BeepEv, BeepEv>>
                        \o <<enable_SR_output("enable")>>, fail)
    IN  [initialized |-> IF Beeped(tr) THEN 1 ELSE 0,
         settings_current |-> IF Beeped(tr) THEN settings_all_on
                                            ELSE self_settings_current,
         trace |-> tr,
         desired |-> settings_desired,
         baseline |-> all_states[1],
         plan |-> Tail(all_states)]

\* Mutant: only the all-closed grid is passed to the hardware.
connect_all_run_Direct(self_initialized, self_settings_current, fail) ==
    LET transitional_states == <<self_settings_current>>
        settings_desired == settings_all_on
        all_states == calc_transition_states(settings_desired,
                          self_settings_current, transitional_states)
        to_apply == IF Len(all_states) > 1 THEN <<Last(all_states)>> ELSE <<>>
        tr == Deliver(apply_states(to_apply) \o <<BeepEv, BeepEv>>
                        \o <<enable_SR_output("enable")>>, fail)
    IN  [initialized |-> IF Beeped(tr) THEN 1 ELSE self_initialized,
         settings_current |-> IF Beeped(tr) THEN settings_all_on
                                            ELSE self_settings_current,
         trace |-> tr,
         desired |-> settings_desired,
         baseline |-> all_states[1],
         plan |-> Tail(all_states)]

connect_all_run(self_initialized, self_settings_current, fail) ==
    LET transitional_states == <<self_settings_current>>
        settings_desired == settings_all_on
        all_states == calc_transition_states(settings_desired,
                          self_settings_current, transitional_states)
        to_apply == Tail(all_states)
        tr == Deliver(apply_states(to_apply) \o <<BeepEv, BeepEv>>
                        \o <<enable_SR_output("enable")>>, fail)
    IN  [initialized |-> IF Beeped(tr) THEN 1 ELSE self_initialized,
         settings_current |-> IF Beeped(tr) THEN settings_all_on
                                            ELSE self_settings_current,
         trace |-> tr,
         desired |-> settings_desired,
         baseline |-> all_states[1],
         plan |-> Tail(all_states)]

\* Mutant: settings_current is the baseline also when initialized is not 1.
disconnect_all_run_NoReset(self_initialized, self_settings_current, fail) ==
    LET current == self_settings_current
        settings_desired == settings_default
        all_states == calc_transition_states(settings_desired, current,
                                             <<current>>)
        to_apply == IF self_initialized = 1 /\ all_states[1] = current
                    THEN Tail(all_states)
                    ELSE all_states
        tr == Deliver(apply_states(to_apply) \o <<BeepEv, BeepEv>>
                        \o <<enable_SR_output("enable")>>, fail)
    IN  [initialized |-> IF Beeped(tr) THEN 1 ELSE self_initialized,
         settings_current |-> IF Beeped(tr) THEN settings_default ELSE current,
         trace |-> tr,
         desired |-> settings_desired,
         baseline |-> all_states[1],
         plan |-> Tail(all_states)]

\* Mutant: transitional_states[0] is always deleted, as in update_state.
disconnect_all_run_AlwaysDelete(self_initialized, self_settings_current, fail) ==
    LET current == IF self_initialized # 1 THEN settings_default
                                            ELSE self_settings_current
        settings_desired == settings_default
        all_states == calc_transition_states(settings_desired, current,
                                             <<current>>)
        to_apply == Tail(all_states)
        tr == Deliver(apply_states(to_apply) \o <<BeepEv, BeepEv>>
                        \o <<enable_SR_output("enable")>>, fail)
    IN  [initialized |-> IF Beeped(tr) THEN 1 ELSE self_initialized,
         settings_current |-> IF Beeped(tr) THEN settings_default ELSE current,
         trace |-> tr,
         desired |-> settings_desired,
         baseline |-> all_states[1],
         plan |-> Tail(all_states)]

\* Mutant: transitional_states[0] is never deleted.
disconnect_all_run_NeverDelete(self_initialized, self_settings_current, fail) ==
    LET current == IF self_initialized # 1 THEN settings_default
                                            ELSE self_settings_current
        settings_desired == settings_default
        all_states == calc_transition_states(settings_desired, current,
                                             <<current>>)
        to_apply == all_states
        tr == Deliver(apply_states(to_apply) \o <<BeepEv, BeepEv>>
                        \o <<enable_SR_output("enable")>>, fail)
    IN  [initialized |-> IF Beeped(tr) THEN 1 ELSE self_initialized,
         settings_current |-> IF Beeped(tr) THEN settings_default ELSE current,
         trace |-> tr,
         desired |-> settings_desired,
         baseline |-> all_states[1],
         plan |-> Tail(all_states)]

\* Mutant: the first grid is deleted whenever it equals settings_current,
\* whether or not the instance is initialized.
disconnect_all_run_DeleteWhenEqual(self_initialized, self_settings_current, fail) ==
    LET current == IF self_initialized # 1 THEN settings_default
                                            ELSE self_settings_current
        settings_desired == settings_default
        all_states == calc_transition_states(settings_desired, current,
                                             <<current>>)
        to_apply == IF all_states[1] = current
                    THEN Tail(all_states)
                    ELSE all_states
        tr == Deliver(apply_states(to_apply) \o <<BeepEv, BeepEv>>
                        \o <<enable_SR_output("enable")>>, fail)
    IN  [initialized |-> IF Beeped(tr) THEN 1 ELSE self_initialized,
         settings_current |-> IF Beeped(tr) THEN settings_default ELSE current,
         trace |-> tr,
         desired |-> settings_desired,
         baseline |-> all_states[1],
         plan |-> Tail(all_states)]

disconnect_all_run(self_initialized, self_settings_current, fail) ==
    LET current == IF self_initialized # 1 THEN settings_default
                                            ELSE self_settings_current
        settings_desired == settings_default
        all_states == calc_transition_states(settings_desired, current,
                                             <<current>>)
        to_apply == IF self_initialized = 1 /\ all_states[1] = current
                    THEN Tail(all_states)
                    ELSE all_states
        tr == Deliver(apply_states(to_apply) \o <<BeepEv, BeepEv>>
                        \o <<enable_SR_output("enable")>>, fail)
    IN  [initialized |-> IF Beeped(tr) THEN 1 ELSE self_initialized,
         settings_current |-> IF Beeped(tr) THEN settings_default ELSE current,
         trace |-> tr,
         desired |-> settings_desired,
         baseline |-> all_states[1],
         plan |-> Tail(all_states)]

\* enable_SR_output called by the user: no attribute changes.
enable_SR_output_run(self_initialized, self_settings_current, value, fail) ==
    [initialized |-> self_initialized,
     settings_current |-> self_settings_current,
     trace |-> Deliver(<<enable_SR_output(value)>>, fail),
     desired |-> self_settings_current,
     baseline |-> self_settings_current,
     plan |-> <<>>]

\* __init__(spi_rack, module, switch_delay, initialize), no bus write raising.
init_run(initialize) ==
    LET d == IF initialize = 1
             THEN disconnect_all_run(0, settings_default, 0)
             ELSE [initialized |-> 0, settings_current |-> settings_default,
                   trace |-> <<>>, desired |-> settings_default,
                   baseline |-> settings_default, plan |-> <<>>]
        updt_data == convert_settings_to_bytearray(settings_default)
    IN  [d EXCEPT !.trace = d.trace
                      \o <<mux8by8_write_user_data(SR_ADDR, updt_data),
                           enable_SR_output("enable")>>]

---------------------------------------------------------------------------
\* The calls.

\* The record of a call.
CallOf(name, entry_initialized, entry_current, entry_file, entry_sr, entry_oe, r) ==
    [name |-> name,
     entry_initialized |-> entry_initialized,
     entry_current |-> entry_current,
     entry_file |-> entry_file,
     entry_sr |-> entry_sr,
     entry_oe |-> entry_oe,
     desired |-> r.desired,
     baseline |-> r.baseline,
     plan |-> r.plan,
     trace |-> r.trace,
     raised |-> Raised(r.trace),
     args |-> IF "args" \in DOMAIN r THEN r.args ELSE <<>>]

\* The values the user passes to enable_SR_output: the two legal ones and an
\* illegal one.
OEValues == {"enable", "disable", "on"}

\* The methods that rewrite a configuration file.
FileEditors == {"edit_connection_in_file", "reset_cfg_file"}

\* The effect of a call on the instance and on the hardware.
Outcome(name, r) ==
    /\ initialized' = r.initialized
    /\ settings_current' = r.settings_current
    /\ sr_data' = LastWrite(r.trace, SR_ADDR, sr_data)
    /\ oe_data' = LastWrite(r.trace, OE_ADDR, oe_data)
    /\ call' = CallOf(name, initialized, settings_current,
                      IF name = "update_state" THEN files[switch_cfg_file.id]
                      ELSE IF name \in FileEditors THEN files[EditedFile]
                      ELSE NoFile,
                      sr_data, oe_data, r)
    /\ failures' = failures + (IF Raised(r.trace) THEN 1 ELSE 0)
    /\ failures' <= MaxFailures

---------------------------------------------------------------------------
\* The instances of the other modules after construction.

\* The instance after __init__(spi_rack, module, Chn1_state, ..., Chn4_state).
P2dConstructed(initial_states) ==
    /\ P2d_remote_settings
           = P2d_initial_settings(initial_states, Len(initial_states))
    /\ P2d_sr = P2d_remote_settings

\* __init__ of D4a_module: remote_settings is 0x42 and written; the two
\* config_led(adc, 0) calls of the loop keep it.
D4aConstructed ==
    /\ D4a_remote_settings
           = config_led_run(config_led_run(\H42, 0, 0, FALSE).remote_settings,
                            1, 0, FALSE).remote_settings
    /\ D4a_sr = D4a_remote_settings

\* The registers of the clock divider, none written.
LMK_registers == {0, 1, 3, 6, 7, 14}

\* __init__ of S5k_module: the clock to the four DAC ICs undivided (the
\* reset word sent to register 0 first is replaced by the word that enables
\* channel 0), the clock source internal.
S5kConstructed ==
    /\ DAC_clock_div = [d \in 1..16 |-> 1]
    /\ LMK = LMK_after([reg \in LMK_registers |-> << >>],
                       <<write_LMK_data(0, divider_data(1)),
                         write_LMK_data(1, divider_data(1)),
                         write_LMK_data(6, divider_data(1)),
                         write_LMK_data(7, divider_data(1)),
                         write_LMK_data(14, BitOr(BitOr(2^30, 0 * 2^29), 2^27))>>)

OtherModulesConstructed ==
    /\ P2dConstructed(<<"off", "off", "off", "off">>)
    /\ D4aConstructed
    /\ S5kConstructed

---------------------------------------------------------------------------
\* A call of a handler of the U1c instance.
Effect(name, r) ==
    /\ Outcome(name, r)
    /\ UNCHANGED <<object_vars, other_modules>>

\* The instance after __init__.
Constructed ==
    \E initialize \in {0, 1} :
        LET r == init_run(initialize)
        IN  /\ initialized = r.initialized
            /\ settings_current = r.settings_current
            /\ switch_cfg_file = DefaultCfgFile
            /\ sr_data = LastWrite(r.trace, SR_ADDR, <<>>)
            /\ oe_data = LastWrite(r.trace, OE_ADDR, <<>>)
            /\ call = CallOf("__init__", 0, settings_default, NoFile,
                             <<>>, <<>>, r)
            /\ failures = 0
            /\ lists = [settings_default |-> settings_default,
                        settings_all_on |-> settings_all_on]
            /\ settings_current_is = IF initialize = 1
                                     THEN "settings_default" ELSE "own"

Init == Constructed /\ files = WellFormedFiles /\ OtherModulesConstructed

provide_cfg_programmatically(new_cfg_file) ==
    /\ switch_cfg_file' = IF new_cfg_file.type # "csv" THEN switch_cfg_file
                          ELSE IF ~isfile(new_cfg_file) THEN switch_cfg_file
                          ELSE new_cfg_file
    /\ UNCHANGED <<initialized, settings_current, files, sr_data, oe_data,
                   call, failures, object_vars, other_modules>>

update_state(fail) ==
    /\ Effect("update_state",
              update_state_run(initialized, settings_current,
                               switch_cfg_file, fail))
    /\ UNCHANGED <<switch_cfg_file, files>>

connect_all(fail) ==
    /\ Effect("connect_all",
              connect_all_run(initialized, settings_current, fail))
    /\ UNCHANGED <<switch_cfg_file, files>>

disconnect_all(fail) ==
    /\ Effect("disconnect_all",
              disconnect_all_run(initialized, settings_current, fail))
    /\ UNCHANGED <<switch_cfg_file, files>>

\* enable_SR_output(value) called by the user.
enable_SR_output_call(value, fail) ==
    /\ Effect("enable_SR_output",
              enable_SR_output_run(initialized, settings_current, value, fail))
    /\ UNCHANGED <<switch_cfg_file, files>>

Next ==
    \/ \E new_cfg_file \in FileNames : provide_cfg_programmatically(new_cfg_file)
    \/ \E fail \in 0..MaxFailAt : update_state(fail)
    \/ \E fail \in 0..MaxFailAt : connect_all(fail)
    \/ \E fail \in 0..MaxFailAt : disconnect_all(fail)
    \/ \E value \in OEValues, fail \in 0..MaxFailAt :
           enable_SR_output_call(value, fail)

Spec == Init /\ [][Next]_vars

---------------------------------------------------------------------------
\* Editing the configuration file.

\* Mutant: the indices are checked after the file was rewritten, and an
\* index outside 1..N is moved to the nearest legal one.
edit_connection_in_file_run_CheckLast(self_initialized, self_settings_current, file, sample_num, instrument_num, new_val) ==
    LET legal == sample_num \in 1..N /\ instrument_num \in 1..N
        clip(x) == IF x < 1 THEN 1 ELSE IF x > N THEN N ELSE x
    IN  [initialized |-> self_initialized,
         settings_current |-> self_settings_current,
         trace |-> IF legal /\ file.exists THEN <<>> ELSE <<RaiseEv>>,
         desired |-> self_settings_current,
         baseline |-> self_settings_current,
         plan |-> <<>>,
         args |-> <<sample_num, instrument_num, new_val>>,
         file |-> IF file.exists
                  THEN TextFile(rewrite(file.lines, clip(sample_num),
                                        clip(instrument_num), new_val))
                  ELSE file]

\* edit_connection_in_file(sample_num, instrument_num, new_val) on the file
\* 'U1c_user_config.csv' as it is on entry: the ValueError of the input
\* checks or the exception of open() end the call before the file is
\* touched.  file is the file after the call.
edit_connection_in_file_run(self_initialized, self_settings_current, file, sample_num, instrument_num, new_val) ==
    LET legal == sample_num \in 1..N /\ instrument_num \in 1..N
    IN  [initialized |-> self_initialized,
         settings_current |-> self_settings_current,
         trace |-> IF legal /\ file.exists THEN <<>> ELSE <<RaiseEv>>,
         desired |-> self_settings_current,
         baseline |-> self_settings_current,
         plan |-> <<>>,
         args |-> <<sample_num, instrument_num, new_val>>,
         file |-> IF legal /\ file.exists
                  THEN TextFile(rewrite(file.lines, sample_num,
                                        instrument_num, new_val))
                  ELSE file]

\* The nested loops of reset_cfg_file from cell number n on (cells numbered
\* row by row): edit_connection_in_file(row_num, col_num, 0) for each of
\* them; the first call that raises ends the loops.
RECURSIVE reset_from(_, _, _, _)
reset_from(self_initialized, self_settings_current, file, n) ==
    IF n > N * N
    THEN [initialized |-> self_initialized,
          settings_current |-> self_settings_current,
          trace |-> <<>>,
          desired |-> self_settings_current,
          baseline |-> self_settings_current,
          plan |-> <<>>,
          args |-> <<>>,
          file |-> file]
    ELSE LET r == edit_connection_in_file_run(self_initialized,
                      self_settings_current, file,
                      ((n - 1) \div N) + 1, ((n - 1) % N) + 1, 0)
         IN  IF Raised(r.trace)
             THEN [r EXCEPT !.args = <<>>]
             ELSE reset_from(self_initialized, self_settings_current,
                             r.file, n + 1)

reset_cfg_file_run(self_initialized, self_settings_current, file) ==
    reset_from(self_initialized, self_settings_current, file, 1)

\* The arguments the user passes to edit_connection_in_file: a legal and an
\* illegal sample number, a legal and an illegal instrument number.
EditSamples == {3, N + 1}

EditInstruments == {0, 6}

EditValues == {0, 1}

edit_connection_in_file(sample_num, instrument_num, new_val) ==
    LET r == edit_connection_in_file_run(initialized, settings_current,
                 files[EditedFile], sample_num, instrument_num, new_val)
    IN  /\ Effect("edit_connection_in_file", r)
        /\ files' = [files EXCEPT ![EditedFile] = r.file]
        /\ UNCHANGED switch_cfg_file

reset_cfg_file ==
    LET r == reset_cfg_file_run(initialized, settings_current,
                                files[EditedFile])
    IN  /\ Effect("reset_cfg_file", r)
        /\ files' = [files EXCEPT ![EditedFile] = r.file]
        /\ UNCHANGED switch_cfg_file

NextFileEdit ==
    \/ \E new_cfg_file \in FileNames : provide_cfg_programmatically(new_cfg_file)
    \/ \E sample_num \in EditSamples, instrument_num \in EditInstruments,
          new_val \in EditValues :
           edit_connection_in_file(sample_num, instrument_num, new_val)
    \/ reset_cfg_file
    \/ update_state(0)

SpecFileEdit == Init /\ [][NextFileEdit]_vars

---------------------------------------------------------------------------
\* The instance in a run directory with malformed configuration files.

InitMalformed ==
    /\ Constructed
    /\ \E kind \in MalformedKinds : files = MalformedFiles(kind)
    /\ OtherModulesConstructed

\* The selected configuration file is removed from the run directory.
remove_cfg_file ==
    /\ files[switch_cfg_file.id].exists
    /\ files' = [files EXCEPT ![switch_cfg_file.id] = NoFile]
    /\ UNCHANGED <<initialized, settings_current, switch_cfg_file, sr_data,
                   oe_data, call, failures, object_vars, other_modules>>

NextMalformed ==
    \/ \E new_cfg_file \in FileNames : provide_cfg_programmatically(new_cfg_file)
    \/ \E fail \in 0..MaxFailAt : update_state(fail)
    \/ \E fail \in 0..MaxFailAt : disconnect_all(fail)
    \/ remove_cfg_file

SpecMalformed == InitMalformed /\ [][NextMalformed]_vars

---------------------------------------------------------------------------
\* Vocabulary of the properties.

Handlers == {"update_state", "connect_all", "disconnect_all"}

\* Number of cells in which two grids differ.
CellDiff(A, B) ==
    Cardinality({c \in (1..N) \X (1..N) : A[c[1]][c[2]] # B[c[1]][c[2]]})

\* Number of bits in which two 8-byte payloads differ.
BitDiff(p, q) ==
    Cardinality({c \in (1..N) \X (0..7) : Bit(p[c[1]], c[2]) # Bit(q[c[1]], c[2])})

\* The payloads the last call wrote to the shift register.
SRWrites == WritesTo(call.trace, SR_ADDR)

\* The payload the shift register held before the i-th of them, <<>> if the
\* instance had written none.
SRBefore(i) == IF i = 1 THEN call.entry_sr ELSE SRWrites[i - 1]

\* The i-th shift-register write of the last call changed at most one bit.
OneBitWrite(i) == SRBefore(i) = <<>> \/ BitDiff(SRBefore(i), SRWrites[i]) <= 1

\* The grids the planner of the last call went through.
Path == <<call.baseline>> \o call.plan

\* The payload of the all-open grid.
AllOpenPayload == [r \in 1..N |-> 0]

\* The last call ended in a raise of a shift-register write.
SRWriteRaised == call.raised /\ Last(call.trace).addr = SR_ADDR

---------------------------------------------------------------------------
\* C1 (as stated): in a run without a failed bus write, every payload written
\* to the shift register differs from the payload written before it in at
\* most one bit.
C1_Original ==
    failures = 0 => \A i \in 1..Len(SRWrites) : OneBitWrite(i)

\* C1 (amended): in a run without a failed bus write, every payload written
\* to the shift register differs from the payload written before it in at
\* most one bit, except the all-open payload that disconnect_all writes
\* when it is entered with initialized not 1.
C1_OneRelayPerWrite ==
    failures = 0 =>
        \A i \in 1..Len(SRWrites) :
            \/ OneBitWrite(i)
            \/ /\ call.name = "disconnect_all"
               /\ call.entry_initialized # 1
               /\ i = 1
               /\ SRWrites[i] = AllOpenPayload

C1_Witness ==
    /\ failures = 0
    /\ call.name = "update_state"
    /\ call.entry_current # settings_default
    /\ Len(SRWrites) > N
    /\ \A i \in 1..Len(SRWrites) : BitDiff(SRBefore(i), SRWrites[i]) = 1

\* C2: in the baseline grid followed by the planned states, every two
\* adjacent grids differ in exactly one cell.
C2_AdjacentDifferInOneCell ==
    \A k \in 1..(Len(Path) - 1) : CellDiff(Path[k], Path[k + 1]) = 1

C2_Witness ==
    /\ call.name \in Handlers
    /\ call.baseline # settings_default
    /\ call.desired # settings_default
    /\ Len(call.plan) > N

\* C3: the plan has one state per cell in which baseline and desired grid
\* differ, its last state is the desired grid, and a cell changes at most
\* once along the plan, and only if it differs between baseline and desired.
C3_PlanIsMinimal ==
    /\ Len(call.plan) = CellDiff(call.baseline, call.desired)
    /\ Last(Path) = call.desired
    /\ \A c \in (1..N) \X (1..N) :
          LET changes == {k \in 1..(Len(Path) - 1) :
                             Path[k][c[1]][c[2]] # Path[k + 1][c[1]][c[2]]}
          IN  /\ Cardinality(changes) <= 1
              /\ call.baseline[c[1]][c[2]] = call.desired[c[1]][c[2]]
                     => changes = {}

C3_Witness ==
    /\ call.name = "update_state"
    /\ call.baseline # settings_default
    /\ call.desired # settings_all_on
    /\ Len(call.plan) > N
    /\ Len(call.plan) < N * N
    /\ Last(call.plan) = call.desired

\* C4: the plan of update_state is empty exactly when the desired grid
\* equals settings_current, and update_state then writes nothing to the
\* shift register.
C4_EmptyPlanIffEqual ==
    call.name = "update_state" =>
        /\ call.plan = <<>> <=> call.desired = call.entry_current
        /\ call.plan = <<>> => SRWrites = <<>>

C4_Witness ==
    /\ call.name = "update_state"
    /\ call.desired = call.entry_current
    /\ call.entry_current # settings_default
    /\ call.plan = <<>>
    /\ ~call.raised

\* C5 (as stated): when a shift-register write of a handler raises,
\* settings_current is afterwards the last state that was written (its
\* payload is the last one the shift register received), or the grid on
\* entry if none was written.
C5_CurrentIsLastWritten ==
    (call.name \in Handlers /\ SRWriteRaised) =>
        IF SRWrites = <<>>
        THEN settings_current = call.entry_current
        ELSE convert_settings_to_bytearray(
                 adapt_settings_to_hardware_mapping(settings_current))
                 = Last(SRWrites)

\* C6 (as stated): after a handler returned normally settings_current is the
\* desired grid; after it was aborted by an error settings_current is the
\* grid on entry.
C6_Original ==
    call.name \in Handlers =>
        IF call.raised THEN settings_current = call.entry_current
                       ELSE settings_current = call.desired

\* C6 (amended): settings_current is never left at an intermediate state of
\* the plan.  After a handler returned normally it is the desired grid.
\* After a shift-register write raised it is the grid on entry, except in a
\* disconnect_all entered with initialized not 1, which has already reset it
\* to the all-open grid.  After the output-enable write of connect_all or
\* disconnect_all raised it is already the desired grid.
C6_NeverPartiallyUpdated ==
    call.name \in Handlers =>
        /\ settings_current \in {call.entry_current, call.desired}
        /\ ~call.raised => settings_current = call.desired
        /\ SRWriteRaised =>
              settings_current =
                  IF call.name = "disconnect_all" /\ call.entry_initialized # 1
                  THEN settings_default
                  ELSE call.entry_current
        /\ (call.raised /\ ~SRWriteRaised) => settings_current = call.desired

C6_Witness ==
    /\ call.name = "update_state"
    /\ SRWriteRaised
    /\ Len(SRWrites) > 0
    /\ settings_current = call.entry_current
    /\ settings_current # call.desired

\* C7 (as stated): a plan computed while initialized is not 1 starts from
\* the all-open grid.
C7_Original ==
    (call.name \in Handlers /\ call.entry_initialized # 1) =>
        call.baseline = settings_default

\* C7 (amended): a plan computed by disconnect_all while initialized is not 1
\* starts from the all-open grid; a plan computed by update_state or
\* connect_all starts from settings_current as it was on entry, whatever
\* initialized is.
C7_Baseline ==
    /\ (call.name = "disconnect_all" /\ call.entry_initialized # 1) =>
           call.baseline = settings_default
    /\ call.name \in {"update_state", "connect_all"} =>
           call.baseline = call.entry_current

C7_Witness ==
    /\ call.name = "disconnect_all"
    /\ call.entry_initialized # 1
    /\ call.entry_current # settings_default
    /\ call.baseline = settings_default

\* C8 (as stated): after a handler returned normally initialized is 1.
C8_Original ==
    (call.name \in Handlers /\ ~call.raised) => initialized = 1

\* C8 (amended): after connect_all or disconnect_all returned normally
\* initialized is 1; update_state leaves initialized as it was on entry.
C8_ValidAfterReturn ==
    /\ (call.name \in {"connect_all", "disconnect_all"} /\ ~call.raised) =>
           initialized = 1
    /\ call.name = "update_state" => initialized = call.entry_initialized

C8_Witness ==
    /\ call.name = "connect_all"
    /\ ~call.raised
    /\ call.entry_initialized = 0
    /\ initialized = 1

\* C9 (as stated): disconnect_all entered with initialized not 1 and an
\* all-true settings_current plans from the all-open grid and writes the
\* shift register N * N times.
C9_Original ==
    (/\ call.name = "disconnect_all"
     /\ call.entry_initialized # 1
     /\ call.entry_current = settings_all_on
     /\ ~call.raised) =>
        /\ call.baseline = settings_default
        /\ Len(SRWrites) = N * N

\* C9 (amended): disconnect_all entered with initialized not 1 plans from
\* the all-open grid and writes the shift register exactly once, with the
\* all-open payload, whatever settings_current holds.
C9_SingleReassertion ==
    (/\ call.name = "disconnect_all"
     /\ call.entry_initialized # 1
     /\ ~call.raised) =>
        /\ call.baseline = settings_default
        /\ call.plan = <<>>
        /\ SRWrites = <<AllOpenPayload>>

C9_Witness ==
    /\ call.name = "disconnect_all"
    /\ call.entry_initialized # 1
    /\ call.entry_current = settings_all_on
    /\ ~call.raised
    /\ SRWrites = <<AllOpenPayload>>

\* C10: disconnect_all entered with initialized = 1 and settings_current
\* all-open has an empty plan, writes nothing to the shift register and
\* leaves settings_current and initialized as they were.
C10_BringUpNoOp ==
    (/\ call.name = "disconnect_all"
     /\ call.entry_initialized = 1
     /\ call.entry_current = settings_default) =>
        /\ call.plan = <<>>
        /\ SRWrites = <<>>
        /\ settings_current = settings_default
        /\ initialized = 1
        /\ sr_data = call.entry_sr

C10_Witness ==
    /\ call.name = "disconnect_all"
    /\ call.entry_initialized = 1
    /\ call.entry_current = settings_default
    /\ ~call.raised
    /\ SRWrites = <<>>

\* C11: whenever disconnect_all returns normally, whatever the state on
\* entry, initialized is 1, settings_current is the all-open grid and the
\* byte last written to the output-enable address is 0.
C11_DisconnectAllPostcondition ==
    (call.name = "disconnect_all" /\ ~call.raised) =>
        /\ initialized = 1
        /\ settings_current = settings_default
        /\ oe_data = <<0>>

C11_Witness ==
    /\ call.name = "disconnect_all"
    /\ ~call.raised
    /\ call.entry_initialized = 0
    /\ call.entry_current # settings_default
    /\ call.entry_oe = <<16>>
    /\ oe_data = <<0>>

\* C12 (as stated): after a handler applied its full plan and returned, the
\* byte last written to the output-enable address is 0 (enabled), also when
\* the user had disabled the output before the call.
C12_OutputEnabledAfterFullPlan ==
    (call.name \in Handlers /\ ~call.raised) => oe_data = <<0>>

\* C13: once initialized is 1, no step (update_state, connect_all,
\* disconnect_all, enable_SR_output, selecting a configuration file; returning
\* or raising) makes it anything else.
C13_FlagOnlyMovesForward ==
    [][initialized = 1 => initialized' = 1]_vars

C13_Witness ==
    /\ call.name \in {"connect_all", "update_state"}
    /\ call.entry_initialized = 1
    /\ call.raised
    /\ Len(SRWrites) > 0
    /\ initialized = 1

---------------------------------------------------------------------------
\* The hardware mapping and the serialization called on their own, on grids
\* of '0' and '1'.

\* Number of times the mapping is applied to its own result.
MaxAdapt == 4

\* The grids passed: the grids of __init__, the grids of the configuration
\* files, and every grid that differs from the all-open grid or from the
\* grid of file MaxCfg in one cell.
ProbeGrids ==
    {settings_default, settings_all_on}
        \cup {CfgGrid(k) : k \in 1..MaxCfg}
        \cup {[settings_default EXCEPT ![c[1]][c[2]] = "1"] :
                  c \in (1..N) \X (1..N)}
        \cup {[CfgGrid(MaxCfg) EXCEPT ![c[1]][c[2]] =
                                        IF @ = "1" THEN "0" ELSE "1"] :
                  c \in (1..N) \X (1..N)}

\* The record of a call of one of the two functions: the argument before and
\* after the call (the functions assign to their local copy only), the
\* value returned, and the number of times the function was applied.
FunctionCallOf(name, arg, out) ==
    [name |-> name, arg |-> arg, arg_after |-> arg, out |-> out, times |-> 1]

call_adapt_settings_to_hardware_mapping(settings_initial) ==
    /\ call' = FunctionCallOf("adapt_settings_to_hardware_mapping",
                              settings_initial,
                              adapt_settings_to_hardware_mapping(settings_initial))
    /\ UNCHANGED <<u1c_vars, object_vars, other_modules>>

\* adapt_settings_to_hardware_mapping applied to the value it returned.
call_adapt_settings_again ==
    /\ call.name = "adapt_settings_to_hardware_mapping"
    /\ call.times < MaxAdapt
    /\ call' = [call EXCEPT !.out = adapt_settings_to_hardware_mapping(@),
                            !.times = @ + 1]
    /\ UNCHANGED <<u1c_vars, object_vars, other_modules>>

call_convert_settings_to_bytearray(next_settings) ==
    /\ call' = FunctionCallOf("convert_settings_to_bytearray", next_settings,
                              convert_settings_to_bytearray(next_settings))
    /\ UNCHANGED <<u1c_vars, object_vars, other_modules>>

NextFunctions ==
    \/ \E settings_initial \in ProbeGrids :
           call_adapt_settings_to_hardware_mapping(settings_initial)
    \/ call_adapt_settings_again
    \/ \E next_settings \in ProbeGrids :
           call_convert_settings_to_bytearray(next_settings)

SpecFunctions == Init /\ [][NextFunctions]_vars

---------------------------------------------------------------------------
\* The handlers on list objects.  A Python list is an object: two names can
\* be bound to one list, and an item assignment through one name is seen
\* through the other.  An object is its reference and its items; the
\* references that matter are the two lists self.settings_default and
\* self.settings_all_on and their rows, every other list is Fresh.

NamedLists == {"settings_default", "settings_all_on"}

Fresh == <<"fresh", 0>>

Object(ref, val) == [ref |-> ref, val |-> val]

\* deepcopy of a row and of a grid.
deepcopy_row(row) == Object(Fresh, row.val)

deepcopy(grid) ==
    Object(Fresh, [r \in 1..Len(grid.val) |-> deepcopy_row(grid.val[r])])

\* A grid that is no named list: a list display, or the rows read from a
\* file.
NewGrid(value) ==
    Object(Fresh, [r \in 1..Len(value) |-> Object(Fresh, value[r])])

\* self.settings_default or self.settings_all_on.
NamedGrid(name, self_lists) ==
    Object(<<name, 0>>,
           [r \in 1..N |-> Object(<<name, r>>, self_lists[name][r])])

\* self.settings_current.
settings_current_object(self_settings_current_is, self_lists, self_settings_current) ==
    IF self_settings_current_is \in NamedLists
    THEN NamedGrid(self_settings_current_is, self_lists)
    ELSE NewGrid(self_settings_current)

\* The operations that change a list in place: list[index] = val,
\* list.append(val), del list[index].
Store(op, list, index, val) ==
    [op |-> op, ref |-> list.ref, index |-> index, val |-> val]

\* Mutant: the row appended is the last row itself, not a copy of it.
RECURSIVE get_transitional_rows_by_reference_NoCopy(_, _, _)
get_transitional_rows_by_reference_NoCopy(row_desired, row_current, transitional_rows) ==
    IF row_desired = row_current.val
    THEN [returned |-> transitional_rows, stores |-> << >>]
    ELSE LET lit_index == FirstDiff(row_desired, row_current.val)
             appended == Last(transitional_rows.val)
             last == [appended EXCEPT !.val[lit_index] = row_desired[lit_index]]
             rest == get_transitional_rows_by_reference_NoCopy(row_desired,
                         last,
                         [transitional_rows EXCEPT !.val = Append(@, last)])
         IN  [returned |-> rest.returned,
              stores |-> <<Store("append", transitional_rows, 0, appended.val),
                           Store("setitem", appended, lit_index,
                                 row_desired[lit_index])>> \o rest.stores]

\* get_transitional_rows on objects: the list returned and the stores made.
RECURSIVE get_transitional_rows_by_reference(_, _, _)
get_transitional_rows_by_reference(row_desired, row_current, transitional_rows) ==
    IF row_desired = row_current.val
    THEN [returned |-> transitional_rows, stores |-> << >>]
    ELSE LET lit_index == FirstDiff(row_desired, row_current.val)
             appended == deepcopy_row(Last(transitional_rows.val))
             last == [appended EXCEPT !.val[lit_index] = row_desired[lit_index]]
             rest == get_transitional_rows_by_reference(row_desired, last,
                         [transitional_rows EXCEPT !.val = Append(@, last)])
         IN  [returned |-> rest.returned,
              stores |-> <<Store("append", transitional_rows, 0, appended.val),
                           Store("setitem", appended, lit_index,
                                 row_desired[lit_index])>> \o rest.stores]

\* get_interim_states_from_interim_rows on objects.  Every pass appends a
\* deep copy of the last state and stores the interim row into the copy; as
\* every pass replaces the same row, the k-th state appended is a deep copy
\* of the last state on entry with row row_num replaced by the k-th interim
\* row.
get_interim_states_by_reference(row_num, interim_rows, interim_states) ==
    LET n == Len(interim_rows.val)
        appended(k) == [deepcopy(Last(interim_states.val))
                            EXCEPT !.val[row_num] = interim_rows.val[k]]
        copied(k) == deepcopy(IF k = 1 THEN Last(interim_states.val)
                                       ELSE appended(k - 1))
    IN  [returned |-> [interim_states EXCEPT
                           !.val = @ \o [k \in 1..n |-> appended(k)]],
         stores |-> Concat([k \in 1..n |->
                        <<Store("append", interim_states, 0, << >>),
                          Store("setitem", copied(k), row_num,
                                interim_rows.val[k].val)>>])]

\* The loop of calc_transition_states on objects, from row row_index on.
RECURSIVE calc_transition_states_by_reference(_, _, _, _)
calc_transition_states_by_reference(row_index, settings_desired, current, transitional_states) ==
    IF row_index > Len(settings_desired)
    THEN [returned |-> transitional_states, stores |-> << >>]
    ELSE LET seed == Object(Fresh, <<current.val[row_index]>>)
             rows == get_transitional_rows_by_reference(
                         settings_desired[row_index], current.val[row_index],
                         seed)
             transitional_rows == [rows.returned EXCEPT !.val = Tail(@)]
             states == get_interim_states_by_reference(row_index,
                           transitional_rows, transitional_states)
             rest == calc_transition_states_by_reference(row_index + 1,
                         settings_desired, current, states.returned)
         IN  [returned |-> rest.returned,
              stores |-> rows.stores
                            \o <<Store("del", rows.returned, 1, << >>)>>
                            \o states.stores \o rest.stores]

\* adapt_settings_to_hardware_mapping on objects: the eight item
\* assignments to the copy.
adapt_settings_to_hardware_mapping_stores(settings_initial) ==
    LET settings_updated == deepcopy(settings_initial)
    IN  [r \in 1..N |->
            Store("setitem", settings_updated, r,
                  adapt_settings_to_hardware_mapping(
                      [i \in 1..N |-> settings_initial.val[i].val])[r])]

\* The stores of a handler: current is self.settings_current, first the
\* grid the handler puts in transitional_states, delivered the number of
\* grids passed to the hardware.
handler_stores(current, first, settings_desired, delivered) ==
    LET transitional_states == Object(Fresh, <<first>>)
        planned == calc_transition_states_by_reference(1, settings_desired,
                       current, transitional_states)
        from == Len(planned.returned.val) - delivered
    IN  planned.stores
            \o Concat([k \in 1..delivered |->
                    adapt_settings_to_hardware_mapping_stores(
                        planned.returned.val[from + k])])

\* The stores into the two named lists and their rows.
named_stores(stores) ==
    LET IsNamed(st) == st.ref[1] \in NamedLists
    IN  SelectSeq(stores, IsNamed)

\* The named lists after the stores.
RECURSIVE lists_after(_, _)
lists_after(self_lists, stores) ==
    IF stores = << >> THEN self_lists
    ELSE LET st == Head(stores)
             name == st.ref[1]
             row == st.ref[2]
             after ==
                 IF row > 0
                 THEN [self_lists EXCEPT ![name][row][st.index] = st.val]
                 ELSE CASE st.op = "setitem" ->
                               [self_lists EXCEPT ![name][st.index] = st.val]
                        [] st.op = "append" ->
                               [self_lists EXCEPT ![name] = Append(@, st.val)]
                        [] st.op = "del" ->
                               [self_lists EXCEPT ![name] = Tail(@)]
         IN  lists_after(after, Tail(stores))

\* The number of grids a call passed to pass_state_to_HW_module: every
\* event of the shift register, the write that raised included.
Passed(tr) ==
    LET IsSR(e) == e.addr = SR_ADDR
    IN  Len(SelectSeq(tr, IsSR))

\* A handler on objects: the call as before, the named lists after its
\* stores, and the list settings_current is bound to.
EffectOnObjects(name, r, current, first, bound_to) ==
    LET stores == IF r.desired = Exception THEN << >>
                  ELSE handler_stores(current, first, r.desired,
                                      Passed(r.trace))
    IN  /\ Outcome(name, r)
        /\ lists' = lists_after(lists, named_stores(stores))
        /\ settings_current_is' = bound_to

\* transitional_states = [deepcopy(self.settings_current)]; on return
\* self.settings_current is the list made from the lines of the file.
update_state_by_reference(fail) ==
    LET r == update_state_run(initialized, settings_current,
                              switch_cfg_file, fail)
        current == settings_current_object(settings_current_is, lists,
                                           settings_current)
    IN  /\ EffectOnObjects("update_state", r, current, deepcopy(current),
                           IF Beeped(r.trace) THEN "own"
                           ELSE settings_current_is)
        /\ UNCHANGED <<switch_cfg_file, files, other_modules>>

\* transitional_states = [deepcopy(self.settings_current)]; on return
\* self.settings_current = self.settings_all_on.
connect_all_by_reference(fail) ==
    LET r == connect_all_run(initialized, settings_current, fail)
        current == settings_current_object(settings_current_is, lists,
                                           settings_current)
    IN  /\ EffectOnObjects("connect_all", r, current, deepcopy(current),
                           IF Beeped(r.trace) THEN "settings_all_on"
                           ELSE settings_current_is)
        /\ UNCHANGED <<switch_cfg_file, files, other_modules>>

\* self.settings_current = deepcopy(self.settings_default) when initialized
\* is not 1; transitional_states = [self.settings_current]; on return
\* self.settings_current = self.settings_default.
disconnect_all_by_reference(fail) ==
    LET r == disconnect_all_run(initialized, settings_current, fail)
        current == IF initialized # 1
                   THEN deepcopy(NamedGrid("settings_default", lists))
                   ELSE settings_current_object(settings_current_is, lists,
                                                settings_current)
    IN  /\ EffectOnObjects("disconnect_all", r, current, current,
                           IF Beeped(r.trace) THEN "settings_default"
                           ELSE IF initialized # 1 THEN "own"
                           ELSE settings_current_is)
        /\ UNCHANGED <<switch_cfg_file, files, other_modules>>

NextObjects ==
    \/ \E new_cfg_file \in FileNames : provide_cfg_programmatically(new_cfg_file)
    \/ \E fail \in 0..MaxFailAt : update_state_by_reference(fail)
    \/ \E fail \in 0..MaxFailAt : connect_all_by_reference(fail)
    \/ \E fail \in 0..MaxFailAt : disconnect_all_by_reference(fail)

SpecObjects == Init /\ [][NextObjects]_vars

---------------------------------------------------------------------------
\* The calls of the other modules.  The history of a call: its name, its
\* arguments, the attributes and the hardware on entry, the words it wrote,
\* whether it raised.

ModuleCallOf(name, args, entry, r) ==
    [name |-> name, args |-> args, entry |-> entry,
     written |-> r.written, raised |-> r.raised]

\* A call that raises is counted; a run has MaxFailures of them at most.
Counted(r) ==
    /\ failures' = failures + (IF r.raised THEN 1 ELSE 0)
    /\ failures' <= MaxFailures

module_frame == <<initialized, settings_current, switch_cfg_file, files,
                  sr_data, oe_data, object_vars>>

LastWritten(r, before) == IF r.written = << >> THEN before ELSE Last(r.written)

\* P2d_module.

P2dChannels == {0, 1, 4}
P2dStates == {"ON", "off", "maybe"}
P2dLimits == {"LOW", "high", "maybe"}

enable_outputs(channel_num, state, fail) ==
    LET r == enable_outputs_run(P2d_remote_settings, channel_num, state, fail)
    IN  /\ P2d_remote_settings' = r.remote_settings
        /\ P2d_sr' = LastWritten(r, P2d_sr)
        /\ call' = ModuleCallOf("enable_outputs", <<channel_num, state>>,
                                [remote_settings |-> P2d_remote_settings], r)
        /\ Counted(r)
        /\ UNCHANGED <<module_frame, d4a_vars, s5k_vars>>

set_I_limit(channel, limit, fail) ==
    LET r == set_I_limit_run(P2d_remote_settings, channel, limit, fail)
    IN  /\ P2d_remote_settings' = r.remote_settings
        /\ P2d_sr' = LastWritten(r, P2d_sr)
        /\ call' = ModuleCallOf("set_I_limit", <<channel, limit>>,
                                [remote_settings |-> P2d_remote_settings], r)
        /\ Counted(r)
        /\ UNCHANGED <<module_frame, d4a_vars, s5k_vars>>

\* The rack after the construction of its modules, but for the named one.
RackBut(module) ==
    /\ Constructed
    /\ initialized = 1
    /\ files = WellFormedFiles
    /\ module = "P2d" \/ P2dConstructed(<<"off", "off", "off", "off">>)
    /\ module = "D4a" \/ D4aConstructed
    /\ module = "S5k" \/ S5kConstructed

P2dInitialStates == {<<"off", "off", "off", "off">>, <<"ON", "on", "OFF", "on">>}

InitP2d ==
    /\ RackBut("P2d")
    /\ \E initial_states \in P2dInitialStates : P2dConstructed(initial_states)

NextP2d ==
    \/ \E channel_num \in P2dChannels, state \in P2dStates, fail \in BOOLEAN :
           enable_outputs(channel_num, state, fail)
    \/ \E channel \in P2dChannels, limit \in P2dLimits, fail \in BOOLEAN :
           set_I_limit(channel, limit, fail)

SpecP2d == InitP2d /\ [][NextP2d]_vars

\* D4a_module.

D4aADCs == {0, 1, 2}
D4aTypes == {"single-ended measurement", "grounding",
             "back-panel complementary single-ended measurement",
             "back-panel differential measurement",
             "test_msb_is_1", "resistance"}
D4aOnOff == {0, 1, 2}

select_measurement_type(adc, measurement_type, fail) ==
    LET r == select_measurement_type_run(D4a_remote_settings, adc,
                                         measurement_type, fail)
    IN  /\ D4a_remote_settings' = r.remote_settings
        /\ D4a_sr' = LastWritten(r, D4a_sr)
        /\ call' = ModuleCallOf("select_measurement_type",
                                <<adc, measurement_type>>,
                                [remote_settings |-> D4a_remote_settings], r)
        /\ Counted(r)
        /\ UNCHANGED <<module_frame, p2d_vars, s5k_vars>>

config_led(led, on_off, fail) ==
    LET r == config_led_run(D4a_remote_settings, led, on_off, fail)
    IN  /\ D4a_remote_settings' = r.remote_settings
        /\ D4a_sr' = LastWritten(r, D4a_sr)
        /\ call' = ModuleCallOf("config_led", <<led, on_off>>,
                                [remote_settings |-> D4a_remote_settings], r)
        /\ Counted(r)
        /\ UNCHANGED <<module_frame, p2d_vars, s5k_vars>>

NextD4a ==
    \/ \E adc \in D4aADCs, measurement_type \in D4aTypes, fail \in BOOLEAN :
           select_measurement_type(adc, measurement_type, fail)
    \/ \E led \in D4aADCs, on_off \in D4aOnOff, fail \in BOOLEAN :
           config_led(led, on_off, fail)

InitD4a == RackBut("D4a") /\ D4aConstructed

SpecD4a == InitD4a /\ [][NextD4a]_vars

\* S5k_module.

S5kDACs == {0, 2, 7, 13}
S5kDivisors == {1, 3, 4, 510}
S5kFails == 0..2

set_clock_division(DAC, divisor, fail) ==
    LET r == set_clock_division_run(DAC_clock_div, LMK, DAC, divisor, fail)
    IN  /\ DAC_clock_div' = r.DAC_clock_div
        /\ LMK' = r.LMK
        /\ call' = ModuleCallOf("set_clock_division", <<DAC, divisor>>,
                                [DAC_clock_div |-> DAC_clock_div,
                                 LMK |-> LMK], r)
        /\ Counted(r)
        /\ UNCHANGED <<module_frame, d4a_vars, p2d_vars>>

NextS5k ==
    \E DAC \in S5kDACs, divisor \in S5kDivisors, fail \in S5kFails :
        set_clock_division(DAC, divisor, fail)

InitS5k == RackBut("S5k") /\ S5kConstructed

SpecS5k == InitS5k /\ [][NextS5k]_vars

---------------------------------------------------------------------------
\* The configuration file the last call read, as it was on entry.

FileRead == call.entry_file

RowsRead == extract_settings_from_csv_input(FileRead.lines)

MissingFile == ~FileRead.exists

ShortFile == FileRead.exists /\ Len(FileRead.lines) < N + 1

WrongRowLength ==
    /\ FileRead.exists
    /\ Len(FileRead.lines) >= N + 1
    /\ \E i \in 1..N : Len(RowsRead[i]) # N

WrongCell ==
    /\ FileRead.exists
    /\ Len(FileRead.lines) >= N + 1
    /\ \E i \in 1..N : \E j \in 1..Len(RowsRead[i]) :
           RowsRead[i][j] \notin {"0", "1"}

\* The last call raised, attempted no bus write, and left settings_current
\* as it was.
RejectedWithoutWrite ==
    /\ call.raised
    /\ \A k \in 1..Len(call.trace) : call.trace[k].addr \notin {SR_ADDR, OE_ADDR}
    /\ settings_current = call.entry_current

\* C14 (as stated): when the configuration file is missing, has fewer than
\* N + 1 lines, has a data row that does not yield exactly N cells, or has a
\* cell that is neither '0' nor '1', update_state raises, issues no bus write
\* and leaves settings_current unchanged.
C14_Original ==
    (/\ call.name = "update_state"
     /\ MissingFile \/ ShortFile \/ WrongRowLength \/ WrongCell) =>
        RejectedWithoutWrite

\* The part of it that holds of the code: a missing file, a file with fewer
\* than N + 1 lines and a data row that does not yield exactly N cells end
\* update_state with an exception of open(), of the extraction or of the
\* planner, before any bus write.
ShapeDefectsRaise ==
    (/\ call.name = "update_state"
     /\ MissingFile \/ ShortFile \/ WrongRowLength) =>
        /\ RejectedWithoutWrite
        /\ call.plan = <<>>

---------------------------------------------------------------------------
\* The last call was adapt_settings_to_hardware_mapping, applied times times
\* in a row.
Adapted(times) ==
    call.name = "adapt_settings_to_hardware_mapping" /\ call.times = times

\* The row pairs: pair k holds the rows 2k-1 and 2k (Python rows 2k-2 and
\* 2k-1).
Pairs == 1..(N \div 2)

\* A grid with a row that reads differently backwards, and with a pair of
\* different rows.
Asymmetric(grid) ==
    /\ \E r \in 1..N : grid[r] # Reverse(grid[r])
    /\ \E k \in Pairs : grid[2 * k - 1] # grid[2 * k]

\* C15 (as stated): the first row of every pair becomes the second row of
\* the pair in the result (the physical successor row) unchanged, and the
\* second row becomes the first row of the pair in the result (the physical
\* predecessor row) with its columns reversed.
C15_Original ==
    Adapted(1) =>
        \A k \in Pairs :
            /\ call.out[2 * k] = call.arg[2 * k - 1]
            /\ call.out[2 * k - 1] = Reverse(call.arg[2 * k])

\* C15 (amended): the first row of every pair becomes the second row of the
\* pair in the result (the physical successor row) with its columns
\* reversed, and the second row becomes the first row of the pair in the
\* result (the physical predecessor row) unchanged.
C15_PairMapping ==
    Adapted(1) =>
        \A k \in Pairs :
            /\ call.out[2 * k] = Reverse(call.arg[2 * k - 1])
            /\ call.out[2 * k - 1] = call.arg[2 * k]

C15_Witness ==
    /\ Adapted(1)
    /\ Asymmetric(call.arg)
    /\ call.out[2] = Reverse(call.arg[1])
    /\ call.out[2] # call.arg[1]

\* The inverse of the mapping: the first row of a pair of the original is
\* the reversed second row of the pair of the adapted grid, the second row
\* is its first row.
Unadapt(adapted) ==
    [r \in 1..N |-> IF r % 2 = 1 THEN Reverse(adapted[r + 1])
                                 ELSE adapted[r - 1]]

\* C16: adapt_settings_to_hardware_mapping leaves its argument as it was,
\* maps different grids to different grids, is undone by the inverse
\* mapping, and maps a grid that differs from the argument in exactly one
\* cell to a grid that differs from the result in exactly one cell.
C16_PureAndBijective ==
    Adapted(1) =>
        /\ call.arg_after = call.arg
        /\ Unadapt(call.out) = call.arg
        /\ \A other \in ProbeGrids :
              /\ other # call.arg =>
                     adapt_settings_to_hardware_mapping(other) # call.out
              /\ CellDiff(other, call.arg) = 1 =>
                     CellDiff(adapt_settings_to_hardware_mapping(other),
                              call.out) = 1

C16_Witness ==
    /\ Adapted(1)
    /\ Asymmetric(call.arg)
    /\ call.out # call.arg
    /\ \E other \in ProbeGrids :
          /\ CellDiff(other, call.arg) = 1
          /\ CellDiff(adapt_settings_to_hardware_mapping(other), call.out) = 1

\* C17 (as stated): adapt_settings_to_hardware_mapping applied twice returns
\* the grid it started from.
C17_Original ==
    Adapted(2) => call.out = call.arg

\* C17 (amended): adapt_settings_to_hardware_mapping applied twice returns
\* the grid it started from with the columns of every row reversed; applied
\* four times it returns the grid it started from.
C17_TwiceReversesRows ==
    /\ Adapted(2) => call.out = [r \in 1..N |-> Reverse(call.arg[r])]
    /\ Adapted(4) => call.out = call.arg

C17_Witness ==
    /\ Adapted(4)
    /\ Asymmetric(call.arg)
    /\ CellDiff(call.arg, settings_default) = 1
    /\ call.out = call.arg

\* C18: convert_settings_to_bytearray returns N bytes, one per row in row
\* order, each in 0..255; bit 0 of a byte is the last column of its row and
\* bit 7 the first one; different grids give different payloads.
C18_BytePerRow ==
    call.name = "convert_settings_to_bytearray" =>
        /\ Len(call.out) = N
        /\ \A r \in 1..N :
              /\ call.out[r] \in 0..255
              /\ \A j \in 1..N :
                    Bit(call.out[r], N - j)
                        = IF call.arg[r][j] = "1" THEN 1 ELSE 0
        /\ \A other \in ProbeGrids :
              other # call.arg =>
                  convert_settings_to_bytearray(other) # call.out

C18_Witness ==
    /\ call.name = "convert_settings_to_bytearray"
    /\ Asymmetric(call.arg)
    /\ \E r \in 1..N : call.out[r] \notin {0, 255}
    /\ \E r \in 1..N : call.out[r] # call.out[1]

---------------------------------------------------------------------------
\* The cells of the grid numbered row by row, 1..N*N: cell n is in row
\* RowOf(n) and column ColOf(n).
RowOf(n) == ((n - 1) \div N) + 1

ColOf(n) == ((n - 1) % N) + 1

\* The cells in which baseline and desired grid of the last call differ, in
\* ascending row order and ascending column order within a row.
DiffersAt(n) ==
    call.baseline[RowOf(n)][ColOf(n)] # call.desired[RowOf(n)][ColOf(n)]

FlipOrder == SelectSeq([n \in 1..(N * N) |-> n], DiffersAt)

\* C19: the plan of a handler is determined by baseline and desired grid
\* alone, whatever calls came before: its k-th state is the state before it
\* with the k-th differing cell, in ascending row order and ascending column
\* order within a row, set to its desired value.
C19_PlanInScanOrder ==
    call.name \in Handlers =>
        LET order == FlipOrder
            path == Path
        IN  /\ Len(call.plan) = Len(order)
            /\ \A k \in 1..Len(call.plan) :
                  LET i == RowOf(order[k])
                      j == ColOf(order[k])
                  IN  call.plan[k] =
                          [path[k] EXCEPT ![i][j] = call.desired[i][j]]

C19_Witness ==
    /\ call.name = "update_state"
    /\ call.baseline = settings_all_on
    /\ call.desired # settings_default
    /\ Len(call.plan) > 2 * N
    /\ \E k \in 1..(Len(call.plan) - 1) :
          /\ RowOf(FlipOrder[k]) = RowOf(FlipOrder[k + 1])
          /\ ColOf(FlipOrder[k]) < ColOf(FlipOrder[k + 1])
    /\ \E k \in 1..(Len(call.plan) - 1) :
          RowOf(FlipOrder[k]) < RowOf(FlipOrder[k + 1])

---------------------------------------------------------------------------
\* The states the last call handed to the hardware loop: the plan, preceded
\* by the baseline in a disconnect_all entered with initialized not 1.
ToApply ==
    IF call.name = "disconnect_all" /\ call.entry_initialized # 1
    THEN Path
    ELSE call.plan

\* The bus writes to the shift register the last call issued, the one that
\* raised included.
IsSREvent(e) == e.op \in {"write", "raise"} /\ e.addr = SR_ADDR

SREvents == SelectSeq(call.trace, IsSREvent)

\* C20: a handler hands the states to apply to the shift register in their
\* order, each as the N bytes of its adapted grid; every write that returns
\* is followed by the settle delay; the done signal comes after the last of
\* these writes and its delay, and settings_current is assigned after the
\* done signal.
C20_DeliveredInOrderWithSettle ==
    call.name \in Handlers =>
        LET to_apply == ToApply
            sr_events == SREvents
        IN  /\ Len(sr_events) <= Len(to_apply)
            /\ \A i \in 1..Len(sr_events) :
                  /\ sr_events[i].data =
                         convert_settings_to_bytearray(
                             adapt_settings_to_hardware_mapping(to_apply[i]))
                  /\ Len(sr_events[i].data) = N
                  /\ sr_events[i].op = "write" => sr_events[i].settle
            /\ Beeped(call.trace) => Len(SRWrites) = Len(to_apply)
            /\ \A i \in 1..Len(call.trace) : \A j \in 1..Len(call.trace) :
                  (call.trace[i].op = "beep" /\ IsSREvent(call.trace[j]))
                      => j < i
            /\ settings_current #
                   (IF call.name = "disconnect_all" /\ call.entry_initialized # 1
                    THEN settings_default ELSE call.entry_current)
                   => Beeped(call.trace)

C20_Witness ==
    /\ call.name = "connect_all"
    /\ ~call.raised
    /\ call.entry_current \notin {settings_default, settings_all_on}
    /\ Len(call.plan) > N
    /\ Len(SRWrites) = Len(call.plan)
    /\ \A i \in 1..Len(SREvents) : SREvents[i].settle
    /\ settings_current = settings_all_on

---------------------------------------------------------------------------
\* The last call ended in a raise of a bus write, which is its last event
\* and its only raise: no event follows it.
BusWriteRaised ==
    /\ call.raised
    /\ Last(call.trace).addr \in {SR_ADDR, OE_ADDR}
    /\ \A i \in 1..(Len(call.trace) - 1) : call.trace[i].op # "raise"

\* C21 (as stated): when a bus write of a handler raises, the call ends with
\* that write (no later snapshot, no output-enable write, no retry), and
\* initialized is what it was on entry.
C21_Original ==
    (call.name \in Handlers /\ call.raised) =>
        /\ BusWriteRaised
        /\ initialized = call.entry_initialized

\* C21 (amended): when a bus write of a handler raises, the call ends with
\* that write.  If it was a shift-register write, initialized is what it was
\* on entry; if it was the output-enable write that ends connect_all and
\* disconnect_all, every state was written before it and initialized is
\* already 1.
C21_FailureEndsCall ==
    (call.name \in Handlers /\ call.raised) =>
        /\ BusWriteRaised
        /\ SRWriteRaised => initialized = call.entry_initialized
        /\ ~SRWriteRaised =>
              /\ call.name \in {"connect_all", "disconnect_all"}
              /\ Len(SRWrites) = Len(ToApply)
              /\ initialized = 1

C21_Witness ==
    /\ call.name = "connect_all"
    /\ SRWriteRaised
    /\ Len(SRWrites) = 1
    /\ Len(call.plan) > 2
    /\ call.entry_initialized = 0
    /\ initialized = 0

---------------------------------------------------------------------------
\* C22: edit_connection_in_file called with a sample number or an instrument
\* number outside 1..N raises at once: the file is as it was on entry
\* (neither read nor rewritten), settings_current and initialized are
\* unchanged, and nothing is written to the bus.
C22_IllegalEditRejected ==
    (/\ call.name = "edit_connection_in_file"
     /\ call.args[1] \notin 1..N \/ call.args[2] \notin 1..N) =>
        /\ call.raised
        /\ call.trace = <<RaiseEv>>
        /\ files[EditedFile] = call.entry_file
        /\ settings_current = call.entry_current
        /\ initialized = call.entry_initialized
        /\ sr_data = call.entry_sr
        /\ oe_data = call.entry_oe

C22_Witness ==
    /\ call.name = "edit_connection_in_file"
    /\ call.args[1] = N + 1
    /\ call.args[2] \in 1..N
    /\ call.raised
    /\ files[EditedFile] # WellFormedFiles[EditedFile]
    /\ files[EditedFile] = call.entry_file
    /\ settings_current # settings_default

\* C23 (as stated): when reset_cfg_file returns, every connection in the
\* selected configuration file is '0', and an update_state that follows it
\* and returns leaves settings_current all-open.
C23_ResetClearsSelectedFile ==
    [][/\ (call' # call /\ call'.name = "reset_cfg_file" /\ ~call'.raised) =>
              extract_settings_from_csv_input(files'[switch_cfg_file'.id].lines)
                  = settings_default
       /\ (/\ call.name = "reset_cfg_file" /\ ~call.raised
           /\ call' # call /\ call'.name = "update_state" /\ ~call'.raised) =>
              settings_current' = settings_default]_vars

\* C24: a disconnect_all entered with initialized not 1 that returns has
\* written the all-open payload to the shift register at least once,
\* whatever settings_current and the register held on entry.
C24_AllOpenWrittenWhenUninitialized ==
    (/\ call.name = "disconnect_all"
     /\ call.entry_initialized # 1
     /\ ~call.raised) =>
        \E i \in 1..Len(SRWrites) : SRWrites[i] = AllOpenPayload

C24_Witness ==
    /\ call.name = "disconnect_all"
    /\ call.entry_initialized # 1
    /\ ~call.raised
    /\ call.entry_current \notin {settings_default, settings_all_on}
    /\ call.entry_sr \notin {<<>>, AllOpenPayload}
    /\ sr_data = AllOpenPayload

C26_OneRelayPerWriteAfterInitialize ==
    (initialized = 1) =>
        [](failures = 0 /\ call.name \in Handlers =>
               \A i \in 1..Len(SRWrites) : OneBitWrite(i))

\* A disconnect_all of such a run that opens the relays that connect_all
\* closed, one per write.
C26_Witness ==
    /\ failures = 0
    /\ call.name = "disconnect_all"
    /\ call.entry_initialized = 1
    /\ call.entry_current = settings_all_on
    /\ call.entry_sr = [r \in 1..N |-> 255]
    /\ Len(SRWrites) = N * N
    /\ \A i \in 1..Len(SRWrites) : BitDiff(SRBefore(i), SRWrites[i]) = 1

---------------------------------------------------------------------------
\* The other modules.

\* The mux-select bits of an ADC in remote_settings of D4a_module, in the
\* order A0, A1_0, A1_1.
MuxBits(adc) == IF adc = 0 THEN <<2, 1, 3>> ELSE <<7, 6, 4>>

\* The code A0, A1_0, A1_1 of a measurement type.
MuxCode(measurement_type) ==
    CASE measurement_type = "single-ended calibration" -> <<0, 0, 0>>
      [] measurement_type = "differential calibration" -> <<0, 0, 1>>
      [] measurement_type = "single-ended measurement" -> <<0, 1, 0>>
      [] measurement_type = "grounding" -> <<1, 0, 0>>
      [] measurement_type = "back-panel single-ended measurement" -> <<1, 1, 0>>
      [] measurement_type
             = "back-panel complementary single-ended measurement" -> <<1, 0, 1>>
      [] measurement_type = "back-panel differential measurement" -> <<1, 1, 1>>

TestTypes == {"test_msb_is_1", "test_lsb_is_1"}

\* C28 (as stated): a select_measurement_type(adc, type) of D4a_module with a
\* measurement type that is not a test type sets the three mux-select bits of
\* the ADC to the code of the type, leaves the five other bits of
\* remote_settings as they were, and writes the resulting byte to address 2.
C28_OnlyAddressedMuxBits ==
    (/\ call.name = "select_measurement_type"
     /\ call.args[1] \in {0, 1}
     /\ IsMeasurementType(call.args[2])
     /\ call.args[2] \notin TestTypes
     /\ ~call.raised) =>
        LET bits == MuxBits(call.args[1])
        IN  /\ \A i \in 1..3 :
                   Bit(D4a_remote_settings, bits[i]) = MuxCode(call.args[2])[i]
            /\ \A k \in 0..7 :
                   k \notin {bits[i] : i \in 1..3} =>
                       Bit(D4a_remote_settings, k)
                           = Bit(call.entry.remote_settings, k)
            /\ call.written = <<D4a_remote_settings>>
            /\ D4a_sr = D4a_remote_settings

P2dCalls == {"enable_outputs", "set_I_limit"}

\* The arguments of the last call of P2d_module are legal.
P2dLegal ==
    /\ call.args[1] \in possible_channels
    /\ upper(call.args[2]) \in (IF call.name = "enable_outputs"
                                  THEN possible_states ELSE possible_limits)

\* The bit of remote_settings the last call of P2d_module is about, and the
\* value asked for: ACT1, ACT2, EN3, EN4 are 1 for 'ON'; LIM1, LIM2 are 1 for
\* 'LOW', ILIM3, ILIM4 are 1 for 'HIGH'.
P2dBit ==
    IF call.name = "enable_outputs" THEN 2 * (call.args[1] - 1)
    ELSE 2 * (call.args[1] - 1) + 1

P2dValue ==
    IF call.name = "enable_outputs"
    THEN (IF upper(call.args[2]) = "ON" THEN 1 ELSE 0)
    ELSE IF (upper(call.args[2]) = "LOW") = (call.args[1] \in {1, 2})
         THEN 1 ELSE 0

BitsChanged(a, b) == Cardinality({k \in 0..7 : Bit(a, k) # Bit(b, k)})

clock_divisor_of(s_data) ==
    IF Bit(s_data[2], 1) = 0 THEN 1 ELSE 2 * s_data[3]

\* C30: after a set_clock_division of S5k_module that returned, the four
\* DACs of each DAC IC have the same entry in DAC_clock_div and the word
\* last written to register 3 of the clock divider encodes the largest
\* entry; a call with a divisor outside 1, 2, 4, ..., 510 raised, wrote no
\* register and left DAC_clock_div as it was.
C30_SharedDividerAndSlowestClock ==
    call.name = "set_clock_division" =>
        /\ ~call.raised =>
               /\ \A d, e \in 1..16 :
                      (d - 1) \div 4 = (e - 1) \div 4 =>
                          DAC_clock_div[d] = DAC_clock_div[e]
               /\ LMK[3] # << >>
               /\ clock_divisor_of(LMK[3])
                      = Max({DAC_clock_div[d] : d \in 1..16})
        /\ call.args[2] \notin allowed_values =>
               /\ call.raised
               /\ call.written = << >>
               /\ LMK = call.entry.LMK
               /\ DAC_clock_div = call.entry.DAC_clock_div

\* A DAC IC gets a divisor below the largest one in use.
C30_Witness ==
    /\ call.name = "set_clock_division"
    /\ call.args = <<7, 4>>
    /\ ~call.raised
    /\ DAC_clock_div[5] = 4 /\ DAC_clock_div[8] = 4
    /\ DAC_clock_div[13] = 510
    /\ clock_divisor_of(LMK[3]) = 510
    /\ clock_divisor_of(LMK[7]) = 4
    /\ call.entry.DAC_clock_div[5] = 510

---------------------------------------------------------------------------
\* C27: the list objects self.settings_default and self.settings_all_on
\* hold the all-'0' grid and the all-'1' grid in every reachable state: no
\* handler stores into them or into their rows, although settings_current
\* is bound to them after disconnect_all and connect_all and the planner
\* starts from the rows of settings_current.
C27_NamedListsNeverStored ==
    /\ lists.settings_default = settings_default
    /\ lists.settings_all_on = settings_all_on

\* A disconnect_all that planned 64 steps from the rows of the list
\* settings_all_on, to which connect_all had bound settings_current.
C27_Witness ==
    /\ call.name = "disconnect_all"
    /\ call.entry_initialized = 1
    /\ call.entry_current = settings_all_on
    /\ Len(call.plan) = N * N
    /\ ~call.raised
    /\ settings_current_is = "settings_default"
    /\ lists.settings_all_on = settings_all_on

====
